---- MODULE Spec2Model ----
(***************************************************************************)
(* A model of fdray's scene-description builder: the node / CSG algebra    *)
(* (fdray/object.py, fdray/core.py), the descriptor records with their     *)
(* scoped override (fdray/core.py), and the scene serializer with its      *)
(* Declare registry (fdray/core/scene.py).                                 *)
(***************************************************************************)
EXTENDS Integers, Sequences, FiniteSets, TLC

VARIABLES
    heap,       \* the node instances created so far; a node's identity is its index
    made,       \* the builder operations performed: [op, l, r, res]
    rec,        \* a descriptor instance: its fields in declaration order
    frames,     \* the `with rec.set(...)` blocks entered and not yet left
    exc,        \* an exception is propagating out of the innermost block
    left,       \* the block left last: how many fields it overrode, how it ended
    scene,      \* the Scene under test, once constructed
    camera,     \* the Camera instance of the program: its fields
    registry,   \* the process-wide Declare registry and id counters
    last,       \* per scene, the text of its latest completed serialization
    call,       \* the latest call of str(scene) / scene.to_str(w, h) and its outcome
    issued,     \* the calls of IdGenerator.generate and Declare.clear, in order
    arg,        \* the latest call of a constructor or of __str__: its arguments
    res         \* the value that call returned

csgVars == <<heap, made>>
setVars == <<rec, frames, exc, left>>
sceneVars == <<scene, camera, registry, last, call>>
idVars == <<issued>>
fnVars == <<arg, res>>

(***************************************************************************)
(* Bounds                                                                  *)
(***************************************************************************)
MaxDerived == 3     \* builder operations a behaviour applies to its primitives
MaxDepth == 2       \* nested `with rec.set(...)` blocks
MaxArgs == 2        \* positional arguments of a Scene(...) call
MaxPos == 3         \* positional values of a constructor call
MaxAttrs == 2       \* attributes of a node that is serialized
MaxPairs == 3       \* (key, value) pairs of a map
MaxIds == 5         \* calls of IdGenerator.generate and Declare.clear

(***************************************************************************)
(* Values held in args and attrs.  Every value is a record with a tag t.   *)
(***************************************************************************)
Num(n) == [t |-> "num", n |-> n]
Tok(s) == [t |-> "tok", s |-> s]
Ref(i) == [t |-> "node", n |-> i]
ColorVal(s) == [t |-> "color", s |-> s]
PigmentOf(c) == [t |-> "pigment", s |-> c.s]
AttributeOf(k, v) == [t |-> "attribute", name |-> k, value |-> v]
NoneVal == [t |-> "none"]
BoolVal(b) == [t |-> "bool", b |-> b]

\* Transform(scale=..., rotate=..., translate=...): an unset field is <<>>,
\* a number is <<x>>, a vector is <<x, y, z>>.
TransformOf(sc, ro, tr) ==
    [t |-> "transform", scale |-> sc, rotate |-> ro, translate |-> tr]

IsObject(v) == v.t = "node"

\* Python truthiness of a keyword value (Element.__init__: `if v`).
Truthy(v) ==
    CASE v.t = "none" -> FALSE
      [] v.t = "bool" -> v.b
      [] v.t = "num"  -> v.n # 0
      [] v.t = "tok"  -> v.s # ""
      [] OTHER        -> TRUE

(***************************************************************************)
(* Classes                                                                 *)
(***************************************************************************)
CsgKinds == {"union", "intersection", "difference", "merge"}
PrimKinds == {"sphere", "box"}

IsCsg(kind) == kind \in CsgKinds

\* nargs: ClassVar of each class
Nargs(kind) ==
    IF kind \in PrimKinds \cup {"polyline", "curve"} THEN 2
    ELSE IF kind = "sphere_sweep" THEN 3 ELSE 0

Min(a, b) == IF a < b THEN a ELSE b

RECURSIVE MapSeq(_, _)
MapSeq(Op(_), s) ==
    IF s = <<>> THEN <<>> ELSE <<Op(Head(s))>> \o MapSeq(Op, Tail(s))

RECURSIVE FilterSeq(_, _)
FilterSeq(Test(_), s) ==
    IF s = <<>> THEN <<>>
    ELSE (IF Test(Head(s)) THEN <<Head(s)>> ELSE <<>>) \o FilterSeq(Test, Tail(s))

\* Object.__init__: a raw Color among the positional values becomes a Pigment
WrapColor(v) == IF v.t = "color" THEN PigmentOf(v) ELSE v

KwTruthy(kv) == Truthy(kv[2])
KwAttribute(kv) == AttributeOf(kv[1], kv[2])

\* Element.__init__ (after Object.__init__): the first nargs positional values
\* are args, the rest are attrs, followed by the truthy keywords as Attributes.
Construct(kind, argv, kwargs) ==
    LET args_ == MapSeq(WrapColor, argv)
        k == Min(Nargs(kind), Len(args_))
    IN [kind  |-> kind,
        args  |-> SubSeq(args_, 1, k),
        attrs |-> SubSeq(args_, k + 1, Len(args_))
                    \o MapSeq(KwAttribute, FilterSeq(KwTruthy, kwargs))]

\* convert_attribute of fdray/shapes.py
ConvertAttribute(v) == IF v.t = "color" THEN PigmentOf(v) ELSE v

KwKey(kv) == Tok(kv[1])

\* Shape.__init__ of fdray/shapes.py: the first nargs positional values are
\* args; the attrs are the names of the truthy keywords, followed by the
\* other positional values, converted.
ShapeConstruct(kind, argv, kwargs) ==
    [kind  |-> kind,
     args  |-> SubSeq(argv, 1, Min(Nargs(kind), Len(argv))),
     attrs |-> MapSeq(KwKey, FilterSeq(KwTruthy, kwargs))
                 \o MapSeq(ConvertAttribute,
                           SubSeq(argv, Min(Nargs(kind), Len(argv)) + 1, Len(argv)))]

\* Transformable.__init__ of fdray/transformable.py: the attrs are the names
\* of the truthy keywords, followed by the other positional values.
TransformableConstruct(kind, argv, kwargs) ==
    [kind  |-> kind,
     args  |-> SubSeq(argv, 1, Min(Nargs(kind), Len(argv))),
     attrs |-> MapSeq(KwKey, FilterSeq(KwTruthy, kwargs))
                 \o SubSeq(argv, Min(Nargs(kind), Len(argv)) + 1, Len(argv))]

\* a constructor call allocates a new instance
Alloc(h, node) == [heap |-> Append(h, node), result |-> Len(h) + 1]

(***************************************************************************)
(* Builder operations.  Each returns [heap, result]: the heap after the    *)
(* call and the identity of the node the call returns.                     *)
(***************************************************************************)

\* Object.__add__ (a non-combinator receiver)
ObjectAdd(h, self, other) ==
    IF IsObject(other)
    THEN Alloc(h, Construct("union", <<Ref(self), other>>, <<>>))
    ELSE Alloc(h, Construct(h[self].kind,
                            h[self].args \o h[self].attrs \o <<other>>, <<>>))

\* a slip of Csg.__add__: the receiver's own list is extended and returned
CsgAddInPlace(h, self, other) ==
    [heap   |-> [h EXCEPT ![self].attrs = Append(@, WrapColor(other))],
     result |-> self]

\* a slip of Csg.__add__: the receiver is kept as one child
CsgAddNested(h, self, other) ==
    Alloc(h, Construct(h[self].kind, <<Ref(self), other>>, <<>>))

\* Csg.__add__: self.__class__(*self.attrs, other)
CsgAdd(h, self, other) ==
    Alloc(h, Construct(h[self].kind, h[self].attrs \o <<other>>, <<>>))

\* a slip of Object.__sub__ / __mul__ / __or__: the operands are swapped
ObjectBinarySwapped(kind, h, self, other) ==
    Alloc(h, Construct(kind, <<other, Ref(self)>>, <<>>))

\* Object.__sub__, Object.__mul__, Object.__or__: Difference / Intersection /
\* Merge (self, other)
ObjectBinary(kind, h, self, other) ==
    Alloc(h, Construct(kind, <<Ref(self), other>>, <<>>))

\* the combinator class an operator creates
KindOf(op) ==
    CASE op = "+" -> "union"
      [] op = "-" -> "difference"
      [] op = "*" -> "intersection"
      [] op = "|" -> "merge"

Operators == {"+", "-", "*", "|"}

\* Method resolution of `self op other`: Csg overrides __add__; Intersection,
\* Difference and Merge override their own operator with Csg.__add__; every
\* other case is inherited from Object.
Apply(op, h, self, other) ==
    IF op = "+"
    THEN IF IsCsg(h[self].kind) THEN CsgAdd(h, self, other)
                                ELSE ObjectAdd(h, self, other)
    ELSE IF h[self].kind = KindOf(op) THEN CsgAdd(h, self, other)
                                      ELSE ObjectBinary(KindOf(op), h, self, other)

RECURSIVE Flatten(_)
\* one level of list / tuple arguments is spliced in (Element.add)
Flatten(others) ==
    IF others = <<>> THEN <<>>
    ELSE (IF Head(others).t = "list" THEN Head(others).items ELSE <<Head(others)>>)
         \o Flatten(Tail(others))

ListVal(items) == [t |-> "list", items |-> items]

\* Element.add(*args, **kwargs)
ElementAdd(h, self, others, kwargs) ==
    LET attrs == h[self].attrs \o Flatten(others)
        names == {kwargs[i][1] : i \in DOMAIN kwargs}
        Keep(attr) == attr.t # "attribute" \/ attr.name \notin names
    IN Alloc(h, Construct(h[self].kind,
                          h[self].args \o FilterSeq(Keep, attrs), kwargs))

\* Transformable.scale / rotate / translate
WithTransform(h, self, tr) ==
    Alloc(h, Construct(h[self].kind, h[self].args \o h[self].attrs \o <<tr>>, <<>>))

Scale(h, self, x) == WithTransform(h, self, TransformOf(x, <<>>, <<>>))
Rotate(h, self, v) == WithTransform(h, self, TransformOf(<<>>, v, <<>>))
Translate(h, self, v) == WithTransform(h, self, TransformOf(<<>>, <<>>, v))

(***************************************************************************)
(* Serialization                                                           *)
(***************************************************************************)
RECURSIVE Join(_, _)
\* sep.join(frags)
Join(frags, sep) ==
    IF frags = <<>> THEN ""
    ELSE IF Len(frags) = 1 THEN frags[1]
    ELSE frags[1] \o sep \o Join(Tail(frags), sep)

NonEmpty(s) == s # ""

\* utils.to_str for the integers the model uses
ToStr(n) == ToString(n)

\* utils.convert of a number <<x>> or of a vector <<x, y, z>>
ConvertVec(v) ==
    IF Len(v) = 1 THEN ToStr(v[1])
    ELSE IF Len(v) = 2 THEN ToStr(v[1]) \o " " \o ToStr(v[2])
    ELSE "<" \o Join(MapSeq(ToStr, v), ", ") \o ">"

\* Descriptor.__iter__ over (scale, rotate, translate): all three declare a
\* default, so a set field yields its name and its value
TransformIter(tr) ==
    (IF tr.scale # <<>> THEN <<"scale", ConvertVec(tr.scale)>> ELSE <<>>)
    \o (IF tr.rotate # <<>> THEN <<"rotate", ConvertVec(tr.rotate)>> ELSE <<>>)
    \o (IF tr.translate # <<>> THEN <<"translate", ConvertVec(tr.translate)>> ELSE <<>>)

\* a variant that takes the shorthand of the first field set
TransformStrFirstSet(tr) ==
    IF tr.scale # <<>> THEN "scale " \o ConvertVec(tr.scale)
    ELSE IF tr.rotate # <<>> THEN "rotate " \o ConvertVec(tr.rotate)
    ELSE IF tr.translate # <<>> THEN "translate " \o ConvertVec(tr.translate)
    ELSE "transform { " \o Join(TransformIter(tr), " ") \o " }"

\* Transform.__str__
TransformStr(tr) ==
    IF tr.scale # <<>> /\ tr.rotate = <<>> /\ tr.translate = <<>>
    THEN "scale " \o ConvertVec(tr.scale)
    ELSE IF tr.scale = <<>> /\ tr.rotate # <<>> /\ tr.translate = <<>>
    THEN "rotate " \o ConvertVec(tr.rotate)
    ELSE IF tr.scale = <<>> /\ tr.rotate = <<>> /\ tr.translate # <<>>
    THEN "translate " \o ConvertVec(tr.translate)
    ELSE "transform { " \o Join(TransformIter(tr), " ") \o " }"

RECURSIVE Str(_, _)
RECURSIVE StrAll(_, _)
\* str(attr) for attr in vs
StrAll(h, vs) == IF vs = <<>> THEN <<>> ELSE <<Str(h, Head(vs))>> \o StrAll(h, Tail(vs))

\* Element.__iter__: the args as one fragment, then the non-empty attrs
ElementIter(h, node) ==
    (IF node.args # <<>> THEN <<Join(StrAll(h, node.args), ", ")>> ELSE <<>>)
    \o FilterSeq(NonEmpty, StrAll(h, node.attrs))

\* radii of SphereSweep.__iter__ for n centres: the sequence given, or the
\* number repeated
SweepRadii(radius, n) ==
    IF radius.t = "list" THEN radius.items ELSE [i \in 1..n |-> radius]

\* the pairs of zip(centers, radii, strict=False), which ends with the
\* shorter of the two, each converted
SweepPairs(h, centers, radius) ==
    [i \in 1..Min(Len(centers), Len(SweepRadii(radius, Len(centers)))) |->
        Str(h, centers[i]) \o ", "
          \o Str(h, SweepRadii(radius, Len(centers))[i])]

\* SphereSweep.__iter__ over args (kind, centers, radius)
SweepIter(h, node) ==
    <<node.args[1].s \o ", " \o ToStr(Len(node.args[2].items)),
      Join(SweepPairs(h, node.args[2].items, node.args[3]), ", ")>>
    \o StrAll(h, node.attrs)

\* radius[0] if isinstance(radius, Sequence) else radius
FirstRadius(radius) == IF radius.t = "list" THEN radius.items[1] ELSE radius

\* Sphere(centers[0], radius, *self.attrs) of SphereSweep.__str__
SweepAsSphere(node) ==
    [kind |-> "sphere",
     args |-> <<node.args[2].items[1], FirstRadius(node.args[3])>>,
     attrs |-> node.attrs]

\* a variant that keeps the kind given
SweepKindKept(node) == node

\* the kind SphereSweep.__str__ serializes with: too few points for a cubic
\* or b-spline fall back to a linear spline
SweepKind(node) ==
    IF node.args[1].s \in {"b_spline", "cubic_spline"} /\ Len(node.args[2].items) < 4
    THEN [node EXCEPT !.args[1] = Tok("linear_spline")]
    ELSE node

\* utils.reflect_point(point, center): the reflection of point through
\* center, 2 * center - point
ReflectPoint(point, center) == Num(2 * center.n - point.n)

\* a variant without the ghost points
CurveCentersAsGiven(centers) == centers

\* [ghost_first, *centers, ghost_last] of Curve.__str__, for 2 centres or more
CurveCenters(centers) ==
    <<ReflectPoint(centers[2], centers[1])>> \o centers
      \o <<ReflectPoint(centers[Len(centers) - 1], centers[Len(centers)])>>

\* [radius[0], *radius, radius[-1]] if isinstance(radius, Sequence)
CurveRadius(radius) ==
    IF radius.t = "list"
    THEN ListVal(<<radius.items[1]>> \o radius.items
                   \o <<radius.items[Len(radius.items)]>>)
    ELSE radius

\* SphereSweep(kind, centers, radius, *attrs)
SweepOf(kind, centers, radius, attrs) ==
    Construct("sphere_sweep", <<Tok(kind), ListVal(centers), radius>> \o attrs, <<>>)

\* the SphereSweep that Polyline.__str__ and Curve.__str__ serialize; a Curve
\* of fewer than 2 points is serialized as a Polyline
AsSweep(node) ==
    IF node.kind = "polyline" \/ (node.kind = "curve" /\ Len(node.args[1].items) < 2)
    THEN SweepOf("linear_spline", node.args[1].items, node.args[2], node.attrs)
    ELSE IF node.kind = "curve"
    THEN SweepOf("cubic_spline", CurveCenters(node.args[1].items),
                 CurveRadius(node.args[2]), node.attrs)
    ELSE node

\* SphereSweep.__str__ before Base.__str__: the fragments joined for a sweep
SweepEmitted(h, node) ==
    IF Len(node.args[2].items) = 0 THEN <<>>
    ELSE IF Len(node.args[2].items) = 1 THEN ElementIter(h, SweepAsSphere(node))
    ELSE SweepIter(h, SweepKind(node))

\* the fragments joined by str(node): Base.__str__ over __iter__, after the
\* special cases of SphereSweep.__str__
Emitted(h, node) ==
    IF node.kind \in {"sphere_sweep", "polyline", "curve"}
    THEN SweepEmitted(h, AsSweep(node))
    ELSE ElementIter(h, node)

\* Base.__str__, and SphereSweep.__str__ for the empty list of centres
BaseStr(node, frags) ==
    IF node.kind = "sphere_sweep" /\ Len(node.args[2].items) = 0 THEN ""
    ELSE IF node.kind = "sphere_sweep" /\ Len(node.args[2].items) = 1
    THEN "sphere { " \o Join(frags, " ") \o " }"
    ELSE node.kind \o " { " \o Join(frags, " ") \o " }"

\* str(v) for a value v held in args or attrs, the nodes being those of heap h.
Str(h, v) ==
    CASE v.t = "num" -> ToStr(v.n)
      [] v.t = "tok" -> v.s
      [] v.t = "color" -> v.s
      [] v.t = "pigment" -> "pigment { " \o v.s \o " }"
      [] v.t = "transform" -> TransformStr(v)
      [] v.t = "attribute" ->
            IF v.value.t = "none" \/ (v.value.t = "bool" /\ ~v.value.b) THEN ""
            ELSE IF v.value.t = "bool" THEN v.name
            ELSE v.name \o " " \o Str(h, v.value)
      [] v.t = "node" -> BaseStr(AsSweep(h[v.n]), Emitted(h, h[v.n]))

\* Transformable.__iter__ of fdray/transformable.py and Shape.__iter__ of
\* fdray/shapes.py: the args as one fragment, then every attr
TransformableIter(h, node) ==
    (IF node.args # <<>> THEN <<Join(StrAll(h, node.args), ", ")>> ELSE <<>>)
    \o StrAll(h, node.attrs)

NodeStr(h, i) == Str(h, Ref(i))

(***************************************************************************)
(* Descriptor records.  An instance is the sequence of its dataclass       *)
(* fields, [name, value, default], default telling whether the field       *)
(* declares a default.                                                     *)
(***************************************************************************)
Field(name, value, default) == [name |-> name, value |-> value, default |-> default]

FieldNames(r) == {r[i].name : i \in DOMAIN r}

\* getattr(self, name)
GetAttr(r, name) == r[CHOOSE i \in DOMAIN r : r[i].name = name].value

\* setattr(self, name, value)
SetAttr(r, name, value) ==
    [i \in DOMAIN r |-> IF r[i].name = name THEN [r[i] EXCEPT !.value = value]
                                            ELSE r[i]]

RECURSIVE SetAll(_, _, _)
\* for name, value in zip(names, values): setattr(self, name, value)
SetAll(r, names, values) ==
    IF names = <<>> THEN r
    ELSE SetAll(SetAttr(r, Head(names), Head(values)), Tail(names), Tail(values))

KwName(kv) == kv[1]
KwValue(kv) == kv[2]

\* Descriptor.set up to its yield: the named fields are read, then overwritten.
\* Returns the instance inside the block and the values the generator keeps.
SetEnter(r, kwargs) ==
    LET GetR(name) == GetAttr(r, name)
        names == MapSeq(KwName, kwargs)
    IN [rec    |-> SetAll(r, names, MapSeq(KwValue, kwargs)),
        values |-> MapSeq(GetR, names)]

\* a slip of Descriptor.set: no try / finally, so that a block left by an
\* exception restores nothing
SetExitUnlessRaised(r, kwargs, values, raised) ==
    IF raised THEN r ELSE SetAll(r, MapSeq(KwName, kwargs), values)

\* Descriptor.set after its yield: the finally clause puts the kept values
\* back, whether the block completed or raised.
SetExit(r, kwargs, values, raised) ==
    SetAll(r, MapSeq(KwName, kwargs), values)

(***************************************************************************)
(* The Declare registry (fdray/core/base.py): the entries in registration  *)
(* order, [inst, id, body], and the counters of IdGenerator, [base, n].    *)
(***************************************************************************)
\* Declare(node): inst is the identity of the wrapper
DeclareOf(inst, node) == [t |-> "declare", inst |-> inst, node |-> node]

\* Base(): an instance of the class that leaves __iter__ unimplemented
BaseVal == [t |-> "base"]

EmptyRegistry == [members |-> <<>>, counters |-> <<>>]

\* Declare.clear(): the entries and the counters are dropped
DeclareClear(reg) == EmptyRegistry

\* the base name of a wrapped node: its class name in upper case
Upper(kind) ==
    CASE kind = "sphere" -> "SPHERE"
      [] kind = "box"    -> "BOX"
      [] kind = "object" -> "OBJECT"
      [] OTHER           -> kind

\* a slip of IdGenerator.generate: one counter serves every base name
GenerateShared(counters, base) ==
    IF counters = <<>>
    THEN [id |-> base, counters |-> <<[base |-> base, n |-> 0]>>]
    ELSE [id |-> base \o "_" \o ToString(counters[1].n + 1),
          counters |-> <<[base |-> base, n |-> counters[1].n + 1]>>]

\* IdGenerator.generate(base): base, then base_1, base_2, ...
Generate(counters, base) ==
    IF \A i \in DOMAIN counters : counters[i].base # base
    THEN [id |-> base, counters |-> Append(counters, [base |-> base, n |-> 0])]
    ELSE LET i == CHOOSE j \in DOMAIN counters : counters[j].base = base
             n == counters[i].n + 1
         IN [id |-> base \o "_" \o ToString(n),
             counters |-> [counters EXCEPT ![i].n = n]]

Registered(reg, inst) == \E i \in DOMAIN reg.members : reg.members[i].inst = inst

EntryOf(reg, inst) ==
    reg.members[CHOOSE i \in DOMAIN reg.members : reg.members[i].inst = inst]

\* the first stringification of wrapper d: it is registered under the id g
\* generated for it, with the text of its node
Register(h, reg, d, g) ==
    [text |-> g.id,
     reg |-> [members |-> Append(reg.members,
                                 [inst |-> d.inst, id |-> g.id,
                                  body |-> Str(h, d.node)]),
              counters |-> g.counters]]

\* Declare.__str__: the first stringification registers the wrapper; every
\* stringification yields the id.
DeclareStr(h, reg, d) ==
    IF Registered(reg, d.inst)
    THEN [text |-> EntryOf(reg, d.inst).id, reg |-> reg]
    ELSE Register(h, reg, d, Generate(reg.counters, Upper(h[d.node.n].kind)))

\* one statement of Declare.iter_strs()
DeclareStatement(e) == "#declare " \o e.id \o " = " \o e.body \o ";"

(***************************************************************************)
(* Cameras (fdray/camera.py)                                               *)
(***************************************************************************)
RECURSIVE Gcd(_, _)
Gcd(a, b) == IF b = 0 THEN a ELSE Gcd(b, a % b)

\* width / height for height # 0: the quotient, kept exact
Ratio(n, d) == [t |-> "ratio", n |-> n \div Gcd(n, d), d |-> d \div Gcd(n, d)]

RatioStr(r) == ToString(r.n) \o "/" \o ToString(r.d)

\* Camera(): the fields the serializer depends on, with their defaults
NewCamera ==
    <<Field("view_scale", Num(1), TRUE),
      Field("aspect_ratio", Ratio(4, 3), TRUE)>>

\* str(camera): Camera.__iter__ yields right = -2 x sqrt(aspect_ratio) view_scale
\* and up = 2 y / sqrt(aspect_ratio) view_scale; the vectors are left symbolic
CameraStr(cam) ==
    LET ar == RatioStr(GetAttr(cam, "aspect_ratio"))
        vs == Str(<<>>, GetAttr(cam, "view_scale"))
    IN "camera { right -2*x*sqrt(" \o ar \o ")*" \o vs
       \o " up 2*y/sqrt(" \o ar \o ")*" \o vs \o " }"

(***************************************************************************)
(* Stringification with the registry in hand.  The outcome of str(v) is    *)
(* [text, reg, refs, raised]: the text, the registry afterwards, the       *)
(* Declare stringifications that took place, [inst, text], in order, and   *)
(* whether an exception left the call (text is then meaningless).          *)
(***************************************************************************)
Outcome(text, reg, refs, raised) ==
    [text |-> text, reg |-> reg, refs |-> refs, raised |-> raised]

\* an exception leaves the call during which o was computed
Raised(o) == Outcome(<<>>, o.reg, o.refs, TRUE)

\* the fragments texts, obtained with outcome o, followed by those of r
Chain(texts, o, r) == Outcome(texts \o r.text, r.reg, o.refs \o r.refs, r.raised)

\* f"{name} {{ {' '.join(frags)} }}" for the fragments of outcome o
Braced(name, o) ==
    Outcome(name \o " { " \o Join(o.text, " ") \o " }", o.reg, o.refs, o.raised)

RECURSIVE Render(_, _, _)
RECURSIVE RenderAll(_, _, _)

\* str(d) of a wrapper, d being the outcome of Declare.__str__
Used(v, d) == Outcome(d.text, d.reg, <<[inst |-> v.inst, text |-> d.text]>>, FALSE)

\* Element.__iter__: the args, joined, when there are any, then the attrs
\* that are not empty
Fragments(node, a, b) ==
    Outcome((IF node.args # <<>> THEN <<Join(a.text, ", ")>> ELSE <<>>)
                \o FilterSeq(NonEmpty, b.text),
            b.reg, a.refs \o b.refs, b.raised)

\* Element.__iter__ once the args are strings, with outcome a
ElementAttrs(h, node, a) ==
    IF a.raised THEN Raised(a)
    ELSE Fragments(node, a, RenderAll(h, a.reg, node.attrs))

\* str(v): Declare.__str__, Base.__iter__ (which raises), Base.__str__ over
\* Element.__iter__, or Str
Render(h, reg, v) ==
    CASE v.t = "declare" -> Used(v, DeclareStr(h, reg, v))
      [] v.t = "base" -> Outcome("", reg, <<>>, TRUE)
      [] v.t = "camera" -> Outcome(CameraStr(v.rec), reg, <<>>, FALSE)
      [] v.t = "node" ->
            Braced(h[v.n].kind,
                   ElementAttrs(h, h[v.n], RenderAll(h, reg, h[v.n].args)))
      [] OTHER -> Outcome(Str(h, v), reg, <<>>, FALSE)

\* [str(v) for v in vs] once the first is a string, with outcome o
RenderRest(h, o, vs) ==
    IF o.raised THEN Raised(o)
    ELSE Chain(<<o.text>>, o, RenderAll(h, o.reg, vs))

\* [str(v) for v in vs], left to right; text is the sequence of the texts
RenderAll(h, reg, vs) ==
    IF vs = <<>> THEN Outcome(<<>>, reg, <<>>, FALSE)
    ELSE RenderRest(h, Render(h, reg, Head(vs)), Tail(vs))

RECURSIVE DescIter(_, _, _)

\* Descriptor.__iter__ for one field: None and False yield nothing, True
\* yields the name, another value yields the name, if the field declares a
\* default, and convert(value)
FieldValue(h, reg, f) ==
    IF f.value.t \in {"none", "bool"} THEN Outcome("", reg, <<>>, FALSE)
    ELSE Render(h, reg, f.value)

\* a variant that tests the truth value of the field
FieldFragmentsIfTruthy(f, o) ==
    IF f.value.t = "bool" /\ f.value.b THEN <<f.name>>
    ELSE IF ~Truthy(f.value) THEN <<>>
    ELSE (IF f.default THEN <<f.name>> ELSE <<>>) \o <<o.text>>

\* the fragments Descriptor.__iter__ yields for field f, o being the outcome
\* of convert(value)
FieldFragments(f, o) ==
    IF f.value.t = "bool" /\ f.value.b THEN <<f.name>>
    ELSE IF f.value.t \in {"none", "bool"} THEN <<>>
    ELSE (IF f.default THEN <<f.name>> ELSE <<>>) \o <<o.text>>

\* Descriptor.__iter__ once field f is done, with outcome o
DescRest(h, f, o, rest) ==
    IF o.raised THEN Raised(o)
    ELSE Chain(FieldFragments(f, o), o, DescIter(h, o.reg, rest))

\* Descriptor.__iter__; text is the sequence of the fragments
DescIter(h, reg, r) ==
    IF r = <<>> THEN Outcome(<<>>, reg, <<>>, FALSE)
    ELSE DescRest(h, Head(r), FieldValue(h, reg, Head(r)), Tail(r))

\* Base.__str__ of a descriptor whose name property is `name`
DescStr(h, reg, name, r) == Braced(name, DescIter(h, reg, r))

(***************************************************************************)
(* Scenes (fdray/core/scene.py)                                            *)
(***************************************************************************)
CameraVal == [t |-> "camera"]

\* another Camera instance, with the fields r
CameraOf(r) == [t |-> "camera", rec |-> r]
IncludeOf(file) == [t |-> "include", file |-> file]
LightOf(r) == [t |-> "light", rec |-> r]
SettingsOf(r) == [t |-> "settings", rec |-> r]

\* GlobalSettings(assumed_gamma=g)
GlobalSettings(g) ==
    <<Field("ambient_light", NoneVal, TRUE), Field("assumed_gamma", Num(g), TRUE)>>

\* LightSource(location)
LightSource(location) ==
    <<Field("location", location, FALSE),
      Field("from_camera", BoolVal(TRUE), TRUE),
      Field("fade_power", NoneVal, TRUE)>>

\* Include.__str__ for one file name
IncludeStr(inc) == "#include \"" \o inc.file \o "\""

\* the body of Scene.__init__ before its loop
EmptyScene ==
    [camera |-> NoneVal, includes |-> <<>>, light_sources |-> <<>>,
     global_settings |-> GlobalSettings(1), attrs |-> <<>>]

RECURSIVE SceneInit(_, _)
\* the loop of Scene.__init__ over the remaining arguments
SceneInit(sc, args) ==
    IF args = <<>> THEN sc
    ELSE LET attr == Head(args)
             next ==
               CASE attr.t = "camera" -> [sc EXCEPT !.camera = attr]
                 [] attr.t = "include" ->
                      [sc EXCEPT !.includes = Append(@, attr)]
                 [] attr.t = "light" ->
                      [sc EXCEPT !.light_sources = Append(@, attr.rec)]
                 [] attr.t = "settings" ->
                      [sc EXCEPT !.global_settings = attr.rec]
                 [] attr.t = "list" -> [sc EXCEPT !.attrs = @ \o attr.items]
                 [] OTHER -> [sc EXCEPT !.attrs = Append(@, attr)]
         IN SceneInit(next, Tail(args))

\* Scene(*args)
NewSceneOf(args) == SceneInit(EmptyScene, args)

\* one string the iteration of a scene yields: its statement kind, its text,
\* the Declare stringifications inside it, and for a #declare its wrapper
Line(kind, text, refs, inst) ==
    [kind |-> kind, text |-> text, refs |-> refs, inst |-> inst]

\* the outcome of a serialization: the lines, the registry, whether it raised,
\* the light sources and the camera afterwards
Pass(lines, reg, raised, lights, cam) ==
    [lines |-> lines, reg |-> reg, raised |-> raised, lights |-> lights,
     camera |-> cam]

FromCameraOff == <<<<"from_camera", BoolVal(FALSE)>>>>

\* the end of the with block of LightSource.__str__, o being the outcome of
\* Base.__str__: the text and the light source with its field put back
LightLeave(e, o) ==
    [out |-> o, self |-> SetExit(e.rec, FromCameraOff, e.values, o.raised)]

\* the with block of LightSource.__str__, entered with e
LightInside(h, reg, e) == LightLeave(e, DescStr(h, reg, "light_source", e.rec))

\* LightSource.to_str(camera), which is LightSource.__str__ on every path:
\* with self.set(from_camera=False): Base.__str__
LightStr(h, reg, r) == LightInside(h, reg, SetEnter(r, FromCameraOff))

RECURSIVE LightLines(_, _, _)

LightChain(l, r) ==
    Pass(<<Line("light", l.out.text, l.out.refs, 0)>> \o r.lines,
         r.reg, r.raised, <<l.self>> \o r.lights, <<>>)

LightRest(h, l, rest) ==
    IF l.out.raised THEN Pass(<<>>, l.out.reg, TRUE, <<l.self>> \o rest, <<>>)
    ELSE LightChain(l, LightLines(h, l.out.reg, rest))

\* (light.to_str(self.camera) for light in self.light_sources)
LightLines(h, reg, lights) ==
    IF lights = <<>> THEN Pass(<<>>, reg, FALSE, <<>>, <<>>)
    ELSE LightRest(h, LightStr(h, reg, Head(lights)), Tail(lights))

RECURSIVE AttrLines(_, _, _)

AttrChain(o, r) ==
    Pass(<<Line("body", o.text, o.refs, 0)>> \o r.lines, r.reg, r.raised, <<>>, <<>>)

AttrRest(h, o, rest) ==
    IF o.raised THEN Pass(<<>>, o.reg, TRUE, <<>>, <<>>)
    ELSE AttrChain(o, AttrLines(h, o.reg, rest))

\* [str(attr) for attr in self.attrs]
AttrLines(h, reg, attrs) ==
    IF attrs = <<>> THEN Pass(<<>>, reg, FALSE, <<>>, <<>>)
    ELSE AttrRest(h, Render(h, reg, Head(attrs)), Tail(attrs))

\* Declare.iter_strs(): one statement per entry, in registration order
DeclareLines(reg) ==
    [i \in DOMAIN reg.members |->
        Line("declare", DeclareStatement(reg.members[i]), <<>>, reg.members[i].inst)]

\* (str(include) for include in self.includes)
IncludeLines(sc) ==
    [i \in DOMAIN sc.includes |->
        Line("include", IncludeStr(sc.includes[i]), <<>>, 0)]

\* if self.camera: yield str(self.camera)
CameraLines(sc, cam) ==
    IF sc.camera.t # "none" THEN <<Line("camera", CameraStr(cam), <<>>, 0)>>
    ELSE <<>>

\* a slip of Scene.__iter__: the attrs are yielded before the #declare
\* statements
SceneTextAttrsFirst(sc, cam, gs, lights, attrs, declares) ==
    Pass(IF attrs.raised THEN <<>>
         ELSE <<Line("version", "#version 3.7;", <<>>, 0)>>
              \o IncludeLines(sc)
              \o <<Line("settings", gs.text, gs.refs, 0)>>
              \o CameraLines(sc, cam)
              \o lights.lines
              \o attrs.lines
              \o declares,
         attrs.reg, attrs.raised, lights.lights, cam)

\* the strings Scene.__iter__ yields, in the order it yields them; an
\* exception in str(attr) ends the iteration before any is joined
SceneText(sc, cam, gs, lights, attrs, declares) ==
    Pass(IF attrs.raised THEN <<>>
         ELSE <<Line("version", "#version 3.7;", <<>>, 0)>>
              \o IncludeLines(sc)
              \o <<Line("settings", gs.text, gs.refs, 0)>>
              \o CameraLines(sc, cam)
              \o lights.lines
              \o declares
              \o attrs.lines,
         attrs.reg, attrs.raised, lights.lights, cam)

\* Scene.__iter__ from `yield from Declare.iter_strs()` on
SceneFromAttrs(sc, cam, gs, lights, attrs) ==
    SceneText(sc, cam, gs, lights, attrs, DeclareLines(attrs.reg))

\* a slip of Scene.__iter__: the #declare statements are produced before the
\* attrs are turned into strings
SceneFromLightsDeclareFirst(h, sc, cam, gs, lights) ==
    SceneText(sc, cam, gs, lights, AttrLines(h, lights.reg, sc.attrs),
              DeclareLines(lights.reg))

\* Scene.__iter__ from `attrs = [str(attr) for attr in self.attrs]` on
SceneFromLights(h, sc, cam, gs, lights) ==
    SceneFromAttrs(sc, cam, gs, lights, AttrLines(h, lights.reg, sc.attrs))

\* Scene.__iter__ from the camera and the light sources on
SceneFromSettings(h, sc, cam, gs) ==
    SceneFromLights(h, sc, cam, gs, LightLines(h, gs.reg, sc.light_sources))

\* a slip of Scene.__iter__: the registry is not cleared first
SceneIterNoClear(h, sc, cam, reg) ==
    SceneFromSettings(h, sc, cam,
                      DescStr(h, reg, "global_settings", sc.global_settings))

\* Scene.__iter__ driven to its end by "\n".join(self): the registry is
\* cleared, then the version, the includes, the global settings, the camera,
\* the light sources; the attrs are turned into strings, and the #declare
\* statements go before them.
SceneIter(h, sc, cam, reg) ==
    SceneFromSettings(h, sc, cam,
                      DescStr(h, DeclareClear(reg), "global_settings",
                              sc.global_settings))

\* Scene.__str__
SceneStr(h, sc, cam, reg) == SceneIter(h, sc, cam, reg)

\* aspect_ratio=width / height
AspectRatio(width, height) == <<<<"aspect_ratio", Ratio(width, height)>>>>

\* the end of the with block of Scene.to_str, o being the outcome of
\* str(self): the camera gets its fields back
ToStrLeave(kw, e, o) == [o EXCEPT !.camera = SetExit(e.rec, kw, e.values, o.raised)]

\* the with block of Scene.to_str, entered with e
ToStrInside(h, sc, reg, kw, e) == ToStrLeave(kw, e, SceneStr(h, sc, e.rec, reg))

\* a slip of Scene.to_str: the aspect ratio is set and never put back
SceneToStrUnscoped(h, sc, cam, reg, width, height) ==
    IF sc.camera.t = "none" THEN SceneStr(h, sc, cam, reg)
    ELSE IF height = 0 THEN Pass(<<>>, reg, TRUE, sc.light_sources, cam)
    ELSE SceneStr(h, sc, SetEnter(cam, AspectRatio(width, height)).rec, reg)

\* Scene.to_str(width, height); width / height raises for height = 0
SceneToStr(h, sc, cam, reg, width, height) ==
    IF sc.camera.t = "none" THEN SceneStr(h, sc, cam, reg)
    ELSE IF height = 0 THEN Pass(<<>>, reg, TRUE, sc.light_sources, cam)
    ELSE ToStrInside(h, sc, reg, AspectRatio(width, height),
                     SetEnter(cam, AspectRatio(width, height)))

NoScene == [camera |-> NoneVal, includes |-> <<>>, light_sources |-> <<>>,
            global_settings |-> <<>>, attrs |-> <<>>]
NoText == [n |-> 0, aspect |-> NoneVal, lines |-> <<>>]
NoCall == [op |-> "none", scene |-> "none", dims |-> <<>>, raised |-> FALSE,
           lines |-> <<>>, before |-> <<>>]
SceneIds == {"main", "other"}

NoScenes ==
    /\ scene = NoScene
    /\ camera = NewCamera
    /\ registry = EmptyRegistry
    /\ last = [s \in SceneIds |-> NoText]
    /\ call = NoCall

NoIds == issued = <<>>

NoArg == [fn |-> "none"]
NoCalls == arg = NoArg /\ res = NoneVal

(***************************************************************************)
(* The builder as a state machine: a program that creates primitives and   *)
(* combines the nodes it holds.                                            *)
(***************************************************************************)
Centres == {1, 2}
RawAttrs == {ColorVal("color red")}

Record(op, l, r, out) ==
    /\ heap' = out.heap
    /\ made' = Append(made, [op |-> op, l |-> l, r |-> r, res |-> out.result])
    /\ UNCHANGED <<setVars, sceneVars, idVars, fnVars>>

NumPrims == Cardinality({i \in DOMAIN made : made[i].op = "new"})
NumDerived == Len(made) - NumPrims

\* the node the last operation returned
Latest == made[Len(made)].res

\* The program first creates its primitives, Sphere(1, 1) and Box(2, 1): the
\* k-th has centre k.
NewPrimitive ==
    /\ NumDerived = 0
    /\ NumPrims + 1 \in Centres
    /\ LET c == NumPrims + 1
           kind == IF c % 2 = 1 THEN "sphere" ELSE "box"
       IN Record("new", 0, Tok(kind),
                 Alloc(heap, Construct(kind, <<Num(c), Num(1)>>, <<>>)))

\* l op r for two nodes, one of them the node made last
Combine ==
    /\ made # <<>>
    /\ NumDerived < MaxDerived
    /\ \E op \in Operators, x \in DOMAIN heap :
          \/ Record(op, Latest, Ref(x), Apply(op, heap, Latest, Ref(x)))
          \/ Record(op, x, Ref(Latest), Apply(op, heap, x, Ref(Latest)))

\* l + attribute
AddAttribute ==
    /\ made # <<>>
    /\ NumDerived < MaxDerived
    /\ \E a \in RawAttrs :
          Record("+", Latest, a, Apply("+", heap, Latest, a))

\* l.add("a", ["b", "c"], open=True)
AddMethod ==
    /\ made # <<>>
    /\ NumDerived < MaxDerived
    /\ LET others == <<Tok("a"), ListVal(<<Tok("b"), Tok("c")>>)>>
           kwargs == <<<<"open", BoolVal(TRUE)>>>>
       IN Record("add", Latest, ListVal(others),
                 ElementAdd(heap, Latest, others, kwargs))

\* l.scale(2), l.rotate(1, 2, 3), l.translate(1, 2, 3)
TransformNode ==
    /\ made # <<>>
    /\ NumDerived < MaxDerived
    /\ \/ Record("scale", Latest, NoneVal, Scale(heap, Latest, <<2>>))
       \/ Record("rotate", Latest, NoneVal, Rotate(heap, Latest, <<1, 2, 3>>))
       \/ Record("translate", Latest, NoneVal, Translate(heap, Latest, <<1, 2, 3>>))

\* LightSource(location=1): the fields of the dataclass with their defaults
NewLightSource == LightSource(Num(1))

NoBuilder == heap = <<>> /\ made = <<>>
NoScopes ==
    /\ rec = NewLightSource
    /\ frames = <<>>
    /\ exc = FALSE
    /\ left = [fields |-> 0, raised |-> FALSE]

CsgInit == NoBuilder /\ NoScopes /\ NoScenes /\ NoIds /\ NoCalls

CsgNext ==
    \/ NewPrimitive
    \/ Combine
    \/ AddAttribute
    \/ AddMethod
    \/ TransformNode

vars == <<csgVars, setVars, sceneVars, idVars, fnVars>>

SpecCsg == CsgInit /\ [][CsgNext]_vars

(***************************************************************************)
(* Scoped overrides as a state machine: a program that enters and leaves   *)
(* `with rec.set(...)` blocks, nested, some of them left by an exception.  *)
(***************************************************************************)
Overrides == {BoolVal(FALSE), Num(2)}

\* the keyword arguments of a call: distinct field names, in any order
Kwargs ==
    {kw \in UNION {[1..n -> FieldNames(NewLightSource) \X Overrides] : n \in 1..2} :
        \A i, j \in DOMAIN kw : i # j => kw[i][1] # kw[j][1]}

\* with rec.set(**kwargs): the block is entered
EnterSet ==
    /\ ~exc
    /\ Len(frames) < MaxDepth
    /\ \E kw \in Kwargs :
          LET e == SetEnter(rec, kw)
          IN /\ rec' = e.rec
             /\ frames' = Append(frames, [kwargs |-> kw, values |-> e.values,
                                          entry |-> rec])
    /\ UNCHANGED <<exc, left, csgVars, sceneVars, idVars, fnVars>>

\* the code of the innermost block raises
RaiseInBlock ==
    /\ ~exc
    /\ frames # <<>>
    /\ exc' = TRUE
    /\ UNCHANGED <<rec, frames, left, csgVars, sceneVars, idVars, fnVars>>

\* the innermost block is left, normally or by the exception; an exception
\* that has left the outermost block is caught by the caller
LeaveSet ==
    /\ frames # <<>>
    /\ LET f == frames[Len(frames)]
       IN /\ rec' = SetExit(rec, f.kwargs, f.values, exc)
          /\ left' = [fields |-> Len(f.kwargs), raised |-> exc]
    /\ frames' = SubSeq(frames, 1, Len(frames) - 1)
    /\ exc' = (exc /\ Len(frames) > 1)
    /\ UNCHANGED <<csgVars, sceneVars, idVars, fnVars>>

SetInit == NoBuilder /\ NoScopes /\ NoScenes /\ NoIds /\ NoCalls

SetNext ==
    \/ EnterSet
    \/ RaiseInBlock
    \/ LeaveSet

SpecSet == SetInit /\ [][SetNext]_vars

(***************************************************************************)
(* Properties of the CSG algebra                                           *)
(***************************************************************************)
\* the operations `l op r` between two nodes
IsBinary(i) == made[i].op \in Operators /\ made[i].r.t = "node"
Binary == {i \in DOMAIN made : IsBinary(i)}

NodeStrOf(i) == NodeStr(heap, i)

\* the text of one combinator of op's kind holding the given nodes as children
Combinator(op, children) ==
    KindOf(op) \o " { " \o Join(MapSeq(NodeStrOf, children), " ") \o " }"

\* (a op b) op c: entry j applies op to the result of entry i
LeftGrouped(i, j) ==
    /\ made[j].l = made[i].res
    /\ made[i].op = made[j].op
    /\ IsBinary(i) /\ IsBinary(j)

\* a op (b op c): entry j applies op to a and the result of entry i
RightGrouped(i, j) ==
    /\ made[j].r = Ref(made[i].res)
    /\ made[i].op = made[j].op
    /\ IsBinary(i) /\ IsBinary(j)

RECURSIVE ChainOperands(_)
\* the operands a1, ..., an of the chain a1 op a2 op ... op an that entry i
\* completes: the receiver's own chain when the receiver is the result of an
\* application of the same operator, followed by the right operand
ChainOperands(i) ==
    LET prev == {j \in Binary : j < i /\ made[j].op = made[i].op
                                   /\ made[j].res = made[i].l}
    IN IF prev = {} THEN <<made[i].l, made[i].r.n>>
       ELSE Append(ChainOperands(CHOOSE j \in prev : TRUE), made[i].r.n)

C5_OtherOperatorWraps ==
    \A i \in Binary :
       LET r == made[i].l
           node == heap[made[i].res]
       IN (IsCsg(heap[r].kind) /\ heap[r].kind # KindOf(made[i].op)) =>
             /\ made[i].res # r
             /\ node.kind = KindOf(made[i].op)
             /\ node.args = <<>>
             /\ node.attrs = <<Ref(r), made[i].r>>

\* C6: a builder operation returns a new node and leaves every node created
\* before it as it was: same kind, args and attrs, same serialization.
C6_OperandsUnchanged ==
    [][ /\ Len(heap') = Len(heap) + 1
        /\ made'[Len(made')].res = Len(heap')
        /\ \A i \in DOMAIN heap : heap'[i] = heap[i]
        /\ \A i \in DOMAIN heap : NodeStr(heap', i) = NodeStr(heap, i) ]_csgVars

\* a combinator was extended, a node was given attributes and a transform
C6_Witness ==
    /\ \E i \in Binary : IsCsg(heap[made[i].l].kind) /\ made[i].res # made[i].l
    /\ \E i \in DOMAIN made : made[i].op \in {"add", "scale", "rotate", "translate"}

(***************************************************************************)
(* Properties of the scoped override                                       *)
(***************************************************************************)
Overridden(f) == {f.kwargs[i][1] : i \in DOMAIN f.kwargs}

\* C7: when a `set` block ends, normally or by an exception, every overridden
\* field holds the value it had on entry and every other field is unchanged;
\* entering the block changes no field that is not named.
C7_SetRestores ==
    [][ /\ Len(frames') < Len(frames) =>
             LET f == frames[Len(frames)]
             IN \A name \in FieldNames(rec) :
                   /\ GetAttr(rec', name) = GetAttr(f.entry, name)
                   /\ name \notin Overridden(f) =>
                         GetAttr(rec', name) = GetAttr(rec, name)
        /\ Len(frames') > Len(frames) =>
             LET f == frames'[Len(frames')]
             IN \A name \in FieldNames(rec) \ Overridden(f) :
                   GetAttr(rec', name) = GetAttr(rec, name) ]_setVars

\* a block that overrode two fields, nested in another block, was left by an
\* exception
C7_Witness ==
    /\ Len(frames) = 1
    /\ left.raised
    /\ left.fields = 2
    /\ rec # NewLightSource

(***************************************************************************)
(* The serializer as a state machine: a program that holds some nodes,     *)
(* two of them wrapped in Declare, builds a scene from them and calls      *)
(* str(scene) and scene.to_str(width, height), on that scene and on        *)
(* another scene of the same process.                                      *)
(***************************************************************************)
\* d1 = Declare(Sphere(1, 1)) and d2 = Declare(Sphere(2, 1))
Declares == {DeclareOf(1, Ref(1)), DeclareOf(2, Ref(2))}

\* Sphere(1, 1), Sphere(2, 1), Object(d1), Object(d1).scale(1), Object(d2)
SceneHeap ==
    LET h1 == Alloc(<<>>, Construct("sphere", <<Num(1), Num(1)>>, <<>>)).heap
        h2 == Alloc(h1, Construct("sphere", <<Num(2), Num(1)>>, <<>>)).heap
        h3 == Alloc(h2, Construct("object", <<DeclareOf(1, Ref(1))>>, <<>>)).heap
        h4 == Scale(h3, 3, <<1>>).heap
    IN Alloc(h4, Construct("object", <<DeclareOf(2, Ref(2))>>, <<>>)).heap

\* the values a program passes to Scene(...)
SceneArgs ==
    {CameraVal, IncludeOf("colors.inc"), SettingsOf(GlobalSettings(2)),
     LightOf(LightSource(Num(1))), LightOf(LightSource(DeclareOf(1, Ref(1)))),
     Ref(3), Ref(5), ListVal(<<Ref(3), Ref(4), Ref(5)>>), Tok("a"), BaseVal,
     ListVal(<<CameraOf(NewCamera)>>)}

ArgLists == UNION {[1..n -> SceneArgs] : n \in 0..MaxArgs}

\* image sizes: 8/6 is the default aspect ratio, 1/0 does not divide
Dims == {<<8, 6>>, <<2, 1>>, <<1, 0>>}

\* the other scene of the process: Scene(Object(d2))
OtherScene == NewSceneOf(<<Ref(5)>>)

SceneOf(s) == IF s = "main" THEN scene ELSE OtherScene

\* main = Scene(*args)
NewScene ==
    /\ scene = NoScene
    /\ \E args \in ArgLists :
          /\ scene' = NewSceneOf(args)
          /\ arg' = [fn |-> "Scene", args |-> args]
    /\ UNCHANGED <<camera, registry, last, call, csgVars, setVars, idVars, res>>

\* the outcome o of a call on scene s is kept; aspect is the aspect ratio
\* the camera block of the text depends on
Returned(s, op, dims, aspect, o) ==
    /\ registry' = o.reg
    /\ camera' = o.camera
    /\ scene' = IF s = "main" THEN [scene EXCEPT !.light_sources = o.lights]
                ELSE scene
    /\ last' = IF o.raised THEN last
               ELSE [last EXCEPT ![s] = [n |-> Min(@.n + 1, 2),
                                         aspect |-> aspect, lines |-> o.lines]]
    /\ call' = [op |-> op, scene |-> s, dims |-> dims, raised |-> o.raised,
                lines |-> o.lines, before |-> camera]
    /\ UNCHANGED <<csgVars, setVars, idVars, fnVars>>

HasCamera(sc) == sc.camera.t # "none"

\* str(s)
StrScene ==
    /\ \E s \in SceneIds :
          /\ SceneOf(s) # NoScene
          /\ Returned(s, "str", <<>>,
                      IF HasCamera(SceneOf(s)) THEN GetAttr(camera, "aspect_ratio")
                      ELSE NoneVal,
                      SceneStr(heap, SceneOf(s), camera, registry))

\* s.to_str(width, height)
ToStrScene ==
    /\ \E s \in SceneIds, d \in Dims :
          /\ SceneOf(s) # NoScene
          /\ Returned(s, "to_str", d,
                      IF HasCamera(SceneOf(s)) /\ d[2] # 0 THEN Ratio(d[1], d[2])
                      ELSE NoneVal,
                      SceneToStr(heap, SceneOf(s), camera, registry, d[1], d[2]))

Init ==
    /\ heap = SceneHeap
    /\ made = <<>>
    /\ NoScopes
    /\ NoScenes
    /\ NoIds
    /\ NoCalls

Next ==
    \/ NewScene
    \/ StrScene
    \/ ToStrScene

Spec == Init /\ [][Next]_vars

(***************************************************************************)
(* Properties of the serializer                                            *)
(***************************************************************************)
\* "\n".join(lines)
TextOf(lines) ==
    LET LineText(l) == l.text IN Join(MapSeq(LineText, lines), "\n")

\* the text a call returned
Completed == call.op # "none" /\ ~call.raised

\* the stringifications of wrapper d in the lines: <<line, position>>
Uses(lines, d) ==
    {u \in (DOMAIN lines) \X (1..4) :
        /\ u[2] \in DOMAIN lines[u[1]].refs
        /\ lines[u[1]].refs[u[2]].inst = d.inst}

UseText(lines, u) == lines[u[1]].refs[u[2]].text

\* the #declare statements of wrapper d in the lines
Declarations(lines, d) ==
    {i \in DOMAIN lines : lines[i].kind = "declare" /\ lines[i].inst = d.inst}

\* C1: in the text of a scene, every Declare wrapper that was stringified has
\* exactly one #declare statement, and every stringification of it yielded
\* the same bare identifier, the one the statement declares, never the body.
C1_OneDeclarePerInstance ==
    Completed =>
        \A d \in Declares :
            LET uses == Uses(call.lines, d)
                decls == Declarations(call.lines, d)
                body == Str(heap, d.node)
            IN uses # {} =>
                 /\ Cardinality(decls) = 1
                 /\ \A u, v \in uses :
                        UseText(call.lines, u) = UseText(call.lines, v)
                 /\ \A u \in uses, i \in decls :
                        /\ UseText(call.lines, u) # body
                        /\ call.lines[i].text =
                             "#declare " \o UseText(call.lines, u)
                                 \o " = " \o body \o ";"

\* a text in which d1 was stringified three times or more and d2 as well
C1_Witness ==
    /\ Completed
    /\ Cardinality(Uses(call.lines, DeclareOf(1, Ref(1)))) >= 3
    /\ Uses(call.lines, DeclareOf(2, Ref(2))) # {}

\* C2: in the text of a scene, the #declare statement of a wrapper precedes
\* every line that refers to it, light_source blocks included.
C2_DeclarePrecedesUse ==
    Completed =>
        \A d \in Declares : \A u \in Uses(call.lines, d) :
            \E i \in Declarations(call.lines, d) : i < u[1]

\* C8: Scene.to_str(width, height) leaves the camera as it was, whether it
\* returns or raises; the camera block of the text it returns is the one of
\* aspect ratio width / height; without a camera it is str(scene).
C8_ToStrScoped ==
    [][(call' # call /\ call'.op = "to_str") =>
          LET sc == SceneOf(call'.scene)
              d == call'.dims
              plain == SceneStr(heap, sc, camera, registry)
          IN /\ camera' = camera
             /\ GetAttr(camera', "aspect_ratio") = GetAttr(call'.before, "aspect_ratio")
             /\ ~HasCamera(sc) =>
                   /\ call'.raised = plain.raised
                   /\ call'.lines = plain.lines
                   /\ registry' = plain.reg
             /\ (HasCamera(sc) /\ ~call'.raised) =>
                   \E i \in DOMAIN call'.lines :
                       /\ call'.lines[i].kind = "camera"
                       /\ call'.lines[i].text =
                            CameraStr(SetAttr(camera, "aspect_ratio",
                                              Ratio(d[1], d[2])))]_vars

\* to_str(2, 1) of a scene with a camera has raised inside the with block
C8_Witness ==
    /\ call.op = "to_str"
    /\ call.scene = "main"
    /\ HasCamera(scene)
    /\ call.dims = <<2, 1>>
    /\ call.raised
    /\ camera = call.before

\* C9: a scene serialized again, with the same aspect ratio, yields the text
\* it yielded before, whatever was serialized in between.
C9_SameTextTwice ==
    [][\A s \in SceneIds :
          (last[s].n > 0 /\ last'[s].aspect = last[s].aspect) =>
              TextOf(last'[s].lines) = TextOf(last[s].lines)]_vars

\* the main scene, which stringifies a wrapper, has been serialized twice,
\* and the other scene as well
C9_Witness ==
    /\ last["main"].n = 2
    /\ last["other"].n > 0
    /\ Completed
    /\ call.scene = "main"
    /\ \E d \in Declares : Declarations(call.lines, d) # {}

\* C10: once a serialization has finished, the registry holds no entries; and
\* it started empty, so that no entry is of a wrapper the pass did not
\* stringify.
C10_RegistryEmptyAfterPass ==
    Completed =>
        /\ \A i \in DOMAIN registry.members :
               \E d \in Declares :
                   /\ d.inst = registry.members[i].inst
                   /\ Uses(call.lines, d) # {}
        /\ registry.members = <<>>

\* the arguments the scene of the latest call was constructed with
ArgsOf(s) == IF s = "main" THEN arg.args ELSE <<Ref(5)>>

\* the arguments of class t, in the order given
OfClass(args, t) == LET Is(a) == a.t = t IN FilterSeq(Is, args)

\* the arguments that are body statements, the elements of a list or tuple
\* taken one by one, in the order given
BodyOf(args) ==
    LET IsBody(a) == a.t \notin {"camera", "include", "light", "settings"}
        Items(a) == IF a.t = "list" THEN a
                    ELSE [t |-> "list", items |-> <<a>>]
    IN Flatten(MapSeq(Items, FilterSeq(IsBody, args)))

KindsOf(lines) == LET Kind(l) == l.kind IN MapSeq(Kind, lines)

\* the texts of the lines of one kind
TextsOf(lines, kind) ==
    LET Is(l) == l.kind = kind
        Text(l) == l.text
    IN MapSeq(Text, FilterSeq(Is, lines))

Times(n, x) == [i \in 1..n |-> x]

IsCameraBlock(l) ==
    \E d \in Dims \cup {<<4, 3>>} :
        /\ d[2] # 0
        /\ l.text = CameraStr(SetAttr(NewCamera, "aspect_ratio", Ratio(d[1], d[2])))

\* C14: the text of a scene holds at most one camera block, however many
\* Camera values the constructor was given, directly or inside a list.
C14_OneCameraBlock ==
    Completed =>
        Cardinality({i \in DOMAIN call.lines : IsCameraBlock(call.lines[i])}) <= 1

(***************************************************************************)
(* The id generator as a state machine: a program that calls               *)
(* IdGenerator.generate with some base names and Declare.clear.            *)
(***************************************************************************)
Bases == {"x", "x_1", "y"}

\* the entry of `issued` for a call of Declare.clear
Cleared == [base |-> "", id |-> ""]

\* IdGenerator.generate(base)
GenerateId ==
    /\ Len(issued) < MaxIds
    /\ \E base \in Bases :
          LET g == Generate(registry.counters, base)
          IN /\ registry' = [registry EXCEPT !.counters = g.counters]
             /\ issued' = Append(issued, [base |-> base, id |-> g.id])
    /\ UNCHANGED <<scene, camera, last, call, csgVars, setVars, fnVars>>

\* Declare.clear()
ClearIds ==
    /\ Len(issued) < MaxIds
    /\ registry' = DeclareClear(registry)
    /\ issued' = Append(issued, Cleared)
    /\ UNCHANGED <<scene, camera, last, call, csgVars, setVars, fnVars>>

IdInit == NoBuilder /\ NoScopes /\ NoScenes /\ NoIds /\ NoCalls

IdNext ==
    \/ GenerateId
    \/ ClearIds

SpecId == IdInit /\ [][IdNext]_vars

\* the position of the last clear before call k (0 if there is none)
LastClear(k) ==
    LET cs == {j \in 1..(k - 1) : issued[j] = Cleared}
    IN IF cs = {} THEN 0 ELSE CHOOSE j \in cs : \A i \in cs : i <= j

\* the calls before call k, since the last clear, with the base name of call k
Earlier(k) ==
    {j \in (LastClear(k) + 1)..(k - 1) : issued[j].base = issued[k].base}

\* C11: between two clears the i-th call of generate with base b returns b
\* for i = 1 and b_(i-1) for i >= 2, whatever calls were made with other
\* base names; after a clear every base name starts again at b.
C11_IdSequence ==
    \A k \in DOMAIN issued :
        issued[k] # Cleared =>
            issued[k].id =
                IF Earlier(k) = {} THEN issued[k].base
                ELSE issued[k].base \o "_" \o ToString(Cardinality(Earlier(k)))

\* x, y, x_1 were generated, then after a clear x again
C11_Witness ==
    /\ Len(issued) = 5
    /\ issued[1].id = "x" /\ issued[2].id = "y"
    /\ issued[3].id = "x_1" /\ issued[3].base = "x"
    /\ issued[4] = Cleared
    /\ issued[5].id = "x"

\* C12: between two clears every call of generate returns an identifier that
\* no earlier call returned.
C12_IdsUnique ==
    \A k \in DOMAIN issued : \A j \in (LastClear(k) + 1)..(k - 1) :
        issued[k] # Cleared => issued[j].id # issued[k].id

(***************************************************************************)
(* Construction as a state machine: a program makes one constructor call   *)
(* with positional and keyword values, then appends a value to the node it *)
(* got with `+` or add.                                                    *)
(***************************************************************************)
NewKinds == {"sphere", "union"}
PosValues == {Num(1), ColorVal("color red"), Tok("a")}
KwNames == {"open", "k"}
KwValues == {NoneVal, BoolVal(FALSE), BoolVal(TRUE), Num(0), Num(5), Tok("")}

Positionals == UNION {[1..n -> PosValues] : n \in 0..MaxPos}

\* keyword arguments, in the order written: at most one per name
Keywords ==
    {<<>>} \cup {<<kv>> : kv \in KwNames \X KwValues}
           \cup {<<<<"open", v>>, <<"k", w>>>> : v, w \in KwValues}

\* the keyword arguments of an add call
AddKeywords == {kw \in Keywords : Len(kw) <= 1}

\* Kind(*argv, **kwargs) with the classes of fdray/object.py
NewObject ==
    /\ arg = NoArg
    /\ \E kind \in NewKinds, argv \in Positionals, kwargs \in Keywords :
          /\ arg' = [fn |-> "Object", kind |-> kind, args |-> argv,
                     kwargs |-> kwargs]
          /\ res' = Construct(kind, argv, kwargs)
    /\ UNCHANGED <<csgVars, setVars, sceneVars, idVars>>

\* Kind(*argv, **kwargs) with the classes of fdray/shapes.py
NewShape ==
    /\ arg = NoArg
    /\ \E kind \in NewKinds, argv \in Positionals, kwargs \in Keywords :
          /\ arg' = [fn |-> "Shape", kind |-> kind, args |-> argv,
                     kwargs |-> kwargs]
          /\ res' = ShapeConstruct(kind, argv, kwargs)
    /\ UNCHANGED <<csgVars, setVars, sceneVars, idVars>>

\* node + v for the node just constructed
PlusValue ==
    /\ arg.fn = "Object"
    /\ \E v \in PosValues :
          LET o == Apply("+", <<res>>, 1, v)
          IN /\ arg' = [fn |-> "+", kind |-> res.kind, args |-> <<v>>,
                        kwargs |-> <<>>]
             /\ res' = o.heap[o.result]
    /\ UNCHANGED <<csgVars, setVars, sceneVars, idVars>>

\* node.add(v, **kwargs) for the node just constructed
AddValue ==
    /\ arg.fn = "Object"
    /\ \E v \in PosValues, kwargs \in AddKeywords :
          LET o == ElementAdd(<<res>>, 1, <<v>>, kwargs)
          IN /\ arg' = [fn |-> "add", kind |-> res.kind, args |-> <<v>>,
                        kwargs |-> kwargs]
             /\ res' = o.heap[o.result]
    /\ UNCHANGED <<csgVars, setVars, sceneVars, idVars>>

NewInit == NoBuilder /\ NoScopes /\ NoScenes /\ NoIds /\ NoCalls

NewNext ==
    \/ NewObject
    \/ NewShape
    \/ PlusValue
    \/ AddValue

SpecNew == NewInit /\ [][NewNext]_vars

\* v as it is held by a node: a raw Color is wrapped in a Pigment
Held(v) == IF v.t = "color" THEN PigmentOf(v) ELSE v

\* C15: a constructor makes the first nargs positional values the args, the
\* other positional values attrs in the order given, drops falsy keywords and
\* places the other keywords, as (name, value) attributes, after them.
C15_ConstructSplit ==
    arg.fn \in {"Object", "Shape"} =>
        LET n == Min(Nargs(arg.kind), Len(arg.args))
            given == MapSeq(Held, arg.args)
        IN /\ MapSeq(Held, res.args) = SubSeq(given, 1, n)
           /\ res.attrs = SubSeq(given, n + 1, Len(given))
                  \o MapSeq(KwAttribute, FilterSeq(KwTruthy, arg.kwargs))

\* C16: a raw Color given as a positional value, to a constructor, to `+` or
\* to add, is held in attrs as a Pigment and is no element of args.
C16_ColorIsPigmentAttribute ==
    arg.fn # "none" =>
        /\ \A i \in DOMAIN res.args : res.args[i].t \notin {"color", "pigment"}
        /\ \A i \in DOMAIN res.attrs : res.attrs[i].t # "color"
        /\ \A i \in DOMAIN arg.args :
               arg.args[i].t = "color" =>
                   \E j \in DOMAIN res.attrs : res.attrs[j] = PigmentOf(arg.args[i])

(***************************************************************************)
(* Serialization of one node as a state machine: a program constructs a    *)
(* node whose attributes may render as the empty string, then takes its    *)
(* str().                                                                  *)
(***************************************************************************)
\* nodes used as children: a SphereSweep with no centres, and a Sphere
StrHeap ==
    <<[kind |-> "sphere_sweep",
       args |-> <<Tok("linear_spline"), ListVal(<<>>), Num(1)>>, attrs |-> <<>>],
      [kind |-> "sphere", args |-> <<Num(1), Num(1)>>, attrs |-> <<>>]>>

StrValues ==
    {AttributeOf("k", NoneVal), AttributeOf("k", BoolVal(FALSE)),
     AttributeOf("k", BoolVal(TRUE)), AttributeOf("k", Num(5)),
     Ref(1), Ref(2), PigmentOf(ColorVal("color red"))}

Centers ==
    {<<>>, <<Num(1)>>, <<Num(1), Num(2)>>, <<Num(1), Num(2), Num(3), Num(4)>>}

\* the radius of a sweep: one number, or a number per point
Radii == {Num(1), ListVal(<<Num(5), Num(6)>>)}

SweepKinds == {"linear_spline", "b_spline", "cubic_spline"}

\* the required arguments of the classes constructed
StrArgs ==
    {[kind |-> "sphere", args |-> <<Num(1), Num(1)>>],
     [kind |-> "union", args |-> <<>>]}
    \cup {[kind |-> "sphere_sweep", args |-> <<Tok(k), ListVal(cs), r>>] :
            k \in SweepKinds, cs \in Centers, r \in Radii}
    \cup {[kind |-> "curve", args |-> <<ListVal(cs), r>>] :
            cs \in Centers, r \in Radii}

StrAttrs == UNION {[1..n -> StrValues] : n \in 0..MaxAttrs}

\* Kind(*args, *attrs, **kwargs) with the classes of fdray/object.py
NewNode ==
    /\ arg = NoArg
    /\ \E c \in StrArgs, attrs \in StrAttrs, kwargs \in AddKeywords :
          /\ arg' = [fn |-> "Element", kind |-> c.kind, args |-> c.args \o attrs,
                     kwargs |-> kwargs]
          /\ res' = Construct(c.kind, c.args \o attrs, kwargs)
    /\ UNCHANGED <<csgVars, setVars, sceneVars, idVars>>

\* Normal(*attrs, **kwargs) of fdray/texture.py, a Transformable of
\* fdray/transformable.py
NewTexture ==
    /\ arg = NoArg
    /\ \E attrs \in StrAttrs, kwargs \in AddKeywords :
          /\ arg' = [fn |-> "Transformable", kind |-> "normal", args |-> attrs,
                     kwargs |-> kwargs]
          /\ res' = TransformableConstruct("normal", attrs, kwargs)
    /\ UNCHANGED <<csgVars, setVars, sceneVars, idVars>>

Fragments_(fn, node, frags, text) ==
    [t |-> "str", fn |-> fn, node |-> node, frags |-> frags, text |-> text]

\* str(node) for a node of fdray/object.py
StrNode ==
    /\ arg.fn = "Element"
    /\ arg' = [fn |-> "str"]
    /\ res' = Fragments_("Element", res, Emitted(StrHeap, res),
                         BaseStr(AsSweep(res), Emitted(StrHeap, res)))
    /\ UNCHANGED <<csgVars, setVars, sceneVars, idVars>>

\* the fragments of Transformable.__str__ for a node of fdray/texture.py
StrTexture ==
    /\ arg.fn = "Transformable"
    /\ arg' = [fn |-> "str"]
    /\ res' = Fragments_("Transformable", res, TransformableIter(StrHeap, res), "")
    /\ UNCHANGED <<csgVars, setVars, sceneVars, idVars>>

\* a Pigment of fdray/texture.py with the attributes given
PigmentNode(attrs) == TransformableConstruct("pigment", attrs, <<>>)

\* the value of a pair is an instance of the class of the map (Pigment)
IsMapCls(v) == v.t = "inline" /\ v.node.kind = "pigment"

\* the entry Map.__iter__ yields for the pair (k, arg)
MapEntry(h, pair) ==
    IF IsMapCls(pair.value)
    THEN "[" \o ToStr(pair.key) \o " "
           \o Join(TransformableIter(h, pair.value.node), " ") \o "]"
    ELSE "[" \o ToStr(pair.key) \o " " \o Str(h, pair.value) \o "]"

RECURSIVE MapIterFirstPerKey(_, _)
\* a variant that keeps the first pair of every key
MapIterFirstPerKey(h, pairs) ==
    IF pairs = <<>> THEN <<>>
    ELSE IF \E i \in 1..(Len(pairs) - 1) : pairs[i].key = pairs[Len(pairs)].key
    THEN MapIterFirstPerKey(h, SubSeq(pairs, 1, Len(pairs) - 1))
    ELSE Append(MapIterFirstPerKey(h, SubSeq(pairs, 1, Len(pairs) - 1)),
                MapEntry(h, pairs[Len(pairs)]))

\* Map.__iter__
MapIter(h, pairs) == [i \in DOMAIN pairs |-> MapEntry(h, pairs[i])]

\* Map.__str__ for PigmentMap
MapStr(h, pairs) == "pigment_map { " \o Join(MapIter(h, pairs), " ") \o " }"

MapKeys == {0, 1}
MapValues ==
    {Tok("Blue"), [t |-> "inline", node |-> PigmentNode(<<Tok("Red")>>)],
     [t |-> "inline", node |-> PigmentNode(<<Tok("checker"), Tok("Red")>>)]}
MapPairs == {[key |-> k, value |-> v] : k \in MapKeys, v \in MapValues}

\* PigmentMap(*pairs)
NewMap ==
    /\ arg = NoArg
    /\ \E pairs \in UNION {[1..n -> MapPairs] : n \in 0..MaxPairs} :
          /\ arg' = [fn |-> "Map", args |-> pairs]
          /\ res' = [t |-> "map", args |-> pairs]
    /\ UNCHANGED <<csgVars, setVars, sceneVars, idVars>>

\* str(map)
StrMap ==
    /\ arg.fn = "Map"
    /\ arg' = [fn |-> "str"]
    /\ res' = [t |-> "str", fn |-> "Map", pairs |-> res.args,
               frags |-> MapIter(StrHeap, res.args),
               text |-> MapStr(StrHeap, res.args)]
    /\ UNCHANGED <<csgVars, setVars, sceneVars, idVars>>

StrInit == NoBuilder /\ NoScopes /\ NoScenes /\ NoIds /\ NoCalls

StrNext ==
    \/ NewNode
    \/ NewTexture
    \/ StrNode
    \/ StrTexture
    \/ NewMap
    \/ StrMap

SpecStr == StrInit /\ [][StrNext]_vars

\* C17: every fragment emitted when a node is serialized is non-empty,
\* whatever the kind of the node: an attribute that renders as the empty
\* string contributes no fragment.
C17_NoEmptyFragment ==
    arg.fn = "str" => \A i \in DOMAIN res.frags : res.frags[i] # ""

(***************************************************************************)
(* Serialization of a descriptor as a state machine: a program constructs  *)
(* a descriptor with one required field and two fields that declare a      *)
(* default, then iterates over it.                                         *)
(***************************************************************************)
DescValues == {NoneVal, BoolVal(FALSE), BoolVal(TRUE), Num(0), Num(5)}

\* a dataclass with the fields a (required), b = None and c = True
DescriptorOf(a, b, c) ==
    <<Field("a", a, FALSE), Field("b", b, TRUE), Field("c", c, TRUE)>>

NewDescriptor ==
    /\ arg = NoArg
    /\ \E a, b, c \in DescValues :
          /\ arg' = [fn |-> "Descriptor", args |-> <<a, b, c>>]
          /\ res' = [t |-> "descriptor", rec |-> DescriptorOf(a, b, c)]
    /\ UNCHANGED <<csgVars, setVars, sceneVars, idVars>>

\* list(descriptor)
IterDescriptor ==
    /\ arg.fn = "Descriptor"
    /\ arg' = [fn |-> "iter"]
    /\ res' = [t |-> "iter", rec |-> res.rec,
               frags |-> DescIter(<<>>, EmptyRegistry, res.rec).text]
    /\ UNCHANGED <<csgVars, setVars, sceneVars, idVars>>

\* a field of a Transform: None (not set), a number or a vector
TransformValues == {<<>>, <<0>>, <<2>>, <<1, 2, 3>>}

\* Transform(scale=sc, rotate=ro, translate=tr)
NewTransform ==
    /\ arg = NoArg
    /\ \E sc, ro, tr \in TransformValues :
          /\ arg' = [fn |-> "Transform", args |-> <<sc, ro, tr>>]
          /\ res' = TransformOf(sc, ro, tr)
    /\ UNCHANGED <<csgVars, setVars, sceneVars, idVars>>

\* str(transform)
StrTransform ==
    /\ arg.fn = "Transform"
    /\ arg' = [fn |-> "str"]
    /\ res' = [t |-> "str", transform |-> res, text |-> TransformStr(res)]
    /\ UNCHANGED <<csgVars, setVars, sceneVars, idVars>>

DescInit == NoBuilder /\ NoScopes /\ NoScenes /\ NoIds /\ NoCalls

DescNext ==
    \/ NewDescriptor
    \/ IterDescriptor
    \/ NewTransform
    \/ StrTransform

SpecDesc == DescInit /\ [][DescNext]_vars

\* what the fragments of one field are to be
FieldExpected(f) ==
    CASE f.value = NoneVal -> <<>>
      [] f.value = BoolVal(FALSE) -> <<>>
      [] f.value = BoolVal(TRUE) -> <<f.name>>
      [] OTHER -> IF f.default THEN <<f.name, ToStr(f.value.n)>>
                  ELSE <<ToStr(f.value.n)>>

\* C18: a descriptor is serialized field by field, in declaration order:
\* nothing for None or False, the bare name for True, otherwise the name and
\* the value for a field that declares a default and the value alone for a
\* required field; the number 0 is emitted like any other number.
C18_FieldFragments ==
    arg.fn = "iter" =>
        res.frags = FieldExpected(res.rec[1]) \o FieldExpected(res.rec[2])
                      \o FieldExpected(res.rec[3])

\* a required field 0, a field with a default 0 and a field True
C18_Witness ==
    /\ arg.fn = "iter"
    /\ res.rec = DescriptorOf(Num(0), Num(0), BoolVal(TRUE))
    /\ res.frags = <<"0", "b", "0", "c">>

\* the set fields of a transform, in the order scale, rotate, translate
SetFields(tr) ==
    (IF tr.scale # <<>> THEN <<[name |-> "scale", value |-> tr.scale]>> ELSE <<>>)
    \o (IF tr.rotate # <<>> THEN <<[name |-> "rotate", value |-> tr.rotate]>> ELSE <<>>)
    \o (IF tr.translate # <<>>
        THEN <<[name |-> "translate", value |-> tr.translate]>> ELSE <<>>)

NameValue(f) == f.name \o " " \o ConvertVec(f.value)

\* C19: a Transform renders as the shorthand `name V` exactly when one of
\* scale, rotate, translate is set; with none, two or three set it renders as
\* the block `transform { ... }` of the set fields in the order scale, rotate,
\* translate.
C19_TransformShorthand ==
    arg.fn = "str" /\ res.t = "str" =>
        IF Len(SetFields(res.transform)) = 1
        THEN res.text = NameValue(SetFields(res.transform)[1])
        ELSE res.text = "transform { "
                          \o Join(MapSeq(NameValue, SetFields(res.transform)), " ")
                          \o " }"

\* scale and translate set: a block
C19_Witness ==
    /\ arg.fn = "str"
    /\ res.t = "str"
    /\ res.transform = TransformOf(<<2>>, <<>>, <<1, 2, 3>>)
    /\ res.text = "transform { scale 2 translate <1, 2, 3> }"

(***************************************************************************)
(* Color construction.  Alpha, filter and transmit are numbers in [0, 1],  *)
(* held as integers in units of 1/Unit; Unit is a multiple of 255, so that *)
(* the alpha byte b of a hex code is exactly b/255.                        *)
(***************************************************************************)
Unit == 510

\* int(color[7:9], 16) / 255 for the two hex digits <<d1, d2>>
HexAlpha(digits) == Num((16 * digits[1] + digits[2]) * (Unit \div 255))

\* the colour arguments: a name, "#RRGGBB", "#RRGGBBAA", (r, g, b), (r, g, b, a)
NameArg(n) == [t |-> "str", hex |-> FALSE, name |-> n, rgb |-> <<0, 0, 0>>, digits |-> <<>>]

\* a name string is held as its letters and its spelling; Spelled is the string
Spellings ==
    [red     |-> [lower |-> "red", upper |-> "RED", capitalised |-> "Red"],
     blue    |-> [lower |-> "blue", upper |-> "BLUE", capitalised |-> "Blue"],
     mycolor |-> [lower |-> "mycolor", upper |-> "MYCOLOR", capitalised |-> "Mycolor"]]

NameOf(letters, spelling) == [letters |-> letters, spelling |-> spelling]
Spelled(n) == Spellings[n.letters][n.spelling]

\* str.islower and str.upper
IsLower(n) == n.spelling = "lower"
ToUpper(n) == Spellings[n.letters].upper

\* the members of ColorName the model uses, as the channels of their hex
\* codes, int(r, 16) / 255 each
ColorName == [RED |-> <<Unit, 0, 0>>, BLUE |-> <<0, 0, Unit>>]

\* a variant that looks every spelling up
RgbAnyCase(n) ==
    IF ToUpper(n) \in DOMAIN ColorName
    THEN [name |-> "", rgb |-> ColorName[ToUpper(n)]]
    ELSE [name |-> Spelled(n), rgb |-> <<0, 0, 0>>]

\* rgb(color) for a name, and the name and channels Color.__init__ takes of
\* it: a lower-case name is looked up in ColorName, any other string is kept
Rgb(n) ==
    IF IsLower(n) /\ ToUpper(n) \in DOMAIN ColorName
    THEN [name |-> "", rgb |-> ColorName[ToUpper(n)]]
    ELSE [name |-> Spelled(n), rgb |-> <<0, 0, 0>>]

\* a channel byte of a hex code, int(r, 16) / 255
Channel(b) == b * (Unit \div 255)
\* a string that starts with "#": form is "ok" for six hex digits (and the
\* two digits of an alpha byte), "letters" for six characters that are not
\* hex digits, "short" for fewer than six characters
HexForm(c, digits, form) ==
    [t |-> "str", hex |-> TRUE, name |-> [letters |-> "", spelling |-> ""],
     rgb |-> c, digits |-> digits, form |-> form]
HexArg(c, digits) == HexForm(c, digits, "ok")

\* an exception leaves the constructor
RaisedError(e) == [t |-> "raised", error |-> e]
TupleArg(c) == [t |-> "tuple", items |-> c]

\* alpha after the branches of Color.__init__ on the type of color
ColorAlpha(color, alpha) ==
    IF color.t = "str" /\ color.hex /\ Len(color.digits) = 2
    THEN HexAlpha(color.digits)
    ELSE IF color.t = "tuple" /\ Len(color.items) = 4 THEN Num(color.items[4])
    ELSE alpha

\* x or y
Or(x, y) == IF Truthy(x) THEN x ELSE y

\* name and red, green, blue of the colour
ColorBase(color) ==
    IF color.t = "color" THEN [name |-> color.name, rgb |-> color.rgb]
    ELSE IF color.t = "str" THEN
        (IF color.hex /\ color.form = "short"
         THEN [name |-> "#12345", rgb |-> <<0, 0, 0>>]
         ELSE IF color.hex THEN [name |-> "", rgb |-> MapSeq(Channel, color.rgb)]
         ELSE Rgb(color.name))
    ELSE IF Len(color.items) \in {3, 4}
    THEN [name |-> "", rgb |-> SubSeq(color.items, 1, 3)]
    ELSE [name |-> "", rgb |-> <<>>]

\* the last lines of Color.__init__
ColorWith(base, alpha, filter, transmit) ==
    [t |-> "color", name |-> base.name, rgb |-> base.rgb, filter |-> filter,
     transmit |-> IF alpha # NoneVal THEN Num(Unit - alpha.n) ELSE transmit]

\* Color.__init__
ColorInit(color, alpha, filter, transmit) ==
    IF color.t = "color" /\ color.rgb = <<>> THEN RaisedError("AttributeError")
    ELSE IF color.t = "color"
    THEN ColorWith(ColorBase(color), alpha, Or(filter, color.filter),
                   Or(transmit, color.transmit))
    ELSE IF color.t = "str" /\ color.hex /\ color.form = "letters"
    THEN RaisedError("ValueError")
    ELSE ColorWith(ColorBase(color), ColorAlpha(color, alpha), filter, transmit)

\* rgb(color) of fdray/colors.py, and the channels of a tuple
StrictChannels(color) ==
    IF color.t = "str" THEN
        (IF color.hex THEN (IF color.form = "ok" THEN MapSeq(Channel, color.rgb)
                            ELSE <<>>)
         ELSE IF IsLower(color.name) /\ ToUpper(color.name) \in DOMAIN ColorName
         THEN ColorName[ToUpper(color.name)]
         ELSE <<>>)
    ELSE IF Len(color.items) \in {3, 4} THEN SubSeq(color.items, 1, 3)
    ELSE <<>>

InRange(n) == 0 <= n /\ n <= Unit

\* Color._validate of fdray/colors.py
StrictValidate(channels, alpha) ==
    IF \E i \in DOMAIN channels : ~InRange(channels[i])
    THEN RaisedError("ValueError")
    ELSE IF alpha # NoneVal /\ ~InRange(alpha.n) THEN RaisedError("ValueError")
    ELSE [t |-> "strict", rgb |-> channels, alpha |-> alpha]

\* Color.__init__ of fdray/colors.py; channels is <<>> when rgb or the
\* branch on the length of the tuple raises
StrictInit(color, alpha) ==
    IF StrictChannels(color) = <<>> THEN RaisedError("ValueError")
    ELSE StrictValidate(StrictChannels(color), ColorAlpha(color, alpha))

\* specifications that are not valid: tuples of 2 and of 5 components,
\* a channel or an alpha of 1.1, malformed hex strings
InvalidArgs ==
    {TupleArg(<<0, Unit>>), TupleArg(<<0, Unit, 0, 255, 255>>),
     TupleArg(<<561, 0, 0>>), TupleArg(<<0, 0, 0, 561>>),
     HexForm(<<>>, <<>>, "letters"), HexForm(<<>>, <<>>, "short")}

ColorArgs ==
    {HexArg(<<0, 255, 0>>, <<>>), TupleArg(<<0, Unit, 0>>)}
    \cup {NameArg(NameOf(l, sp)) : l \in DOMAIN Spellings,
                                  sp \in {"lower", "upper", "capitalised"}}
    \cup {HexArg(<<0, 255, 0>>, d) : d \in {<<0, 0>>, <<8, 0>>, <<15, 15>>}}
    \cup {TupleArg(<<0, Unit, 0, a>>) : a \in {0, 255, Unit}}

Alphas == {NoneVal, Num(0), Num(102), Num(Unit)}
Filters == {NoneVal, Num(0), Num(153)}
Transmits == {NoneVal, Num(0), Num(51)}

\* Color(color, alpha, filter=filter, transmit=transmit)
NewColor ==
    /\ arg = NoArg
    /\ \E color \in ColorArgs \cup InvalidArgs, alpha \in Alphas,
          filter \in Filters, transmit \in Transmits :
          /\ arg' = [fn |-> "Color", color |-> color, alpha |-> alpha,
                     filter |-> filter, transmit |-> transmit]
          /\ res' = ColorInit(color, alpha, filter, transmit)
    /\ UNCHANGED <<csgVars, setVars, sceneVars, idVars>>

\* Color(color, alpha) with the class of fdray/colors.py
NewStrictColor ==
    /\ arg = NoArg
    /\ \E color \in ColorArgs \cup InvalidArgs, alpha \in Alphas \cup {Num(561)} :
          /\ arg' = [fn |-> "StrictColor", color |-> color, alpha |-> alpha]
          /\ res' = StrictInit(color, alpha)
    /\ UNCHANGED <<csgVars, setVars, sceneVars, idVars>>

\* Color(c, alpha, filter=filter, transmit=transmit) for the Color c just made
CopyColor ==
    /\ arg.fn = "Color"
    /\ arg.color.t # "color"
    /\ res.t = "color"
    /\ \E alpha \in Alphas, filter \in Filters, transmit \in Transmits :
          /\ arg' = [fn |-> "Color", color |-> res, alpha |-> alpha,
                     filter |-> filter, transmit |-> transmit]
          /\ res' = ColorInit(res, alpha, filter, transmit)
    /\ UNCHANGED <<csgVars, setVars, sceneVars, idVars>>

\* f"{x:.3g}" for the numbers of the model, x in units of 1/Unit
Fmt3g(v) ==
    CASE v.n = 0 -> "0"
      [] v.n = 51 -> "0.1"
      [] v.n = 102 -> "0.2"
      [] v.n = 153 -> "0.3"
      [] v.n = 254 -> "0.498"
      [] v.n = 255 -> "0.5"
      [] v.n = 256 -> "0.502"
      [] v.n = 408 -> "0.8"
      [] v.n = Unit -> "1"
      [] OTHER -> ToStr(v.n) \o "/" \o ToStr(Unit)

ChannelStr(n) == Fmt3g(Num(n))

\* Color.__iter__ of a named colour
NamedIter(c) ==
    <<c.name>>
    \o (IF c.filter # NoneVal THEN <<"filter " \o Fmt3g(c.filter)>> ELSE <<>>)
    \o (IF c.transmit # NoneVal THEN <<"transmit " \o Fmt3g(c.transmit)>> ELSE <<>>)

\* Color.__iter__ of a colour given by its channels
RgbIter(c, channels) ==
    IF c.filter # NoneVal /\ c.transmit # NoneVal
    THEN <<"rgbft <" \o channels \o ", " \o Fmt3g(c.filter) \o ", "
              \o Fmt3g(c.transmit) \o ">">>
    ELSE IF c.filter # NoneVal
    THEN <<"rgbf <" \o channels \o ", " \o Fmt3g(c.filter) \o ">">>
    ELSE IF c.transmit # NoneVal
    THEN <<"rgbt <" \o channels \o ", " \o Fmt3g(c.transmit) \o ">">>
    ELSE <<"rgb <" \o channels \o ">">>

\* Color.__str__
ColorStr(c) ==
    IF c.name # "" THEN Join(NamedIter(c), " ")
    ELSE Join(RgbIter(c, Join(MapSeq(ChannelStr, c.rgb), ", ")), " ")

\* str(c) for the Color c just made
StrColor ==
    /\ arg.fn = "Color"
    /\ res.t = "color"
    /\ arg' = [fn |-> "str", of |-> arg]
    /\ res' = IF res.name = "" /\ res.rgb = <<>> THEN RaisedError("AttributeError")
               ELSE [t |-> "str", color |-> res, text |-> ColorStr(res)]
    /\ UNCHANGED <<csgVars, setVars, sceneVars, idVars>>

ColorInitial == NoBuilder /\ NoScopes /\ NoScenes /\ NoIds /\ NoCalls

ColorNext ==
    \/ NewColor
    \/ NewStrictColor
    \/ CopyColor
    \/ StrColor

SpecColor == ColorInitial /\ [][ColorNext]_vars

\* the alpha the precedence chooses: the explicit argument, else the alpha
\* byte of the hex code, else the fourth component of the tuple
AlphaChosen(a) ==
    IF a.alpha # NoneVal THEN a.alpha
    ELSE IF a.color.t = "str" /\ a.color.hex /\ Len(a.color.digits) = 2
    THEN HexAlpha(a.color.digits)
    ELSE IF a.color.t = "tuple" /\ Len(a.color.items) = 4 THEN Num(a.color.items[4])
    ELSE NoneVal

\* C20: the transmit of a Color constructed from a name, a hex code or a
\* tuple is 1 - a for the alpha a chosen by the precedence explicit argument,
\* hex alpha byte, fourth component of the tuple; without an alpha it is the
\* explicit transmit argument.
C20_TransmitFromAlpha ==
    arg.fn = "Color" /\ arg.color.t # "color" /\ res.t = "color" =>
        IF AlphaChosen(arg) # NoneVal
        THEN res.transmit = Num(Unit - AlphaChosen(arg).n)
        ELSE res.transmit = arg.transmit

\* C21: Color(existing, filter=f, transmit=t) copies the name and the
\* channels of the existing Color, takes f and t when they are supplied, 0
\* included, and keeps the existing filter / transmit otherwise.
C21_CopyOverrides ==
    arg.fn = "Color" /\ arg.color.t = "color" /\ arg.alpha = NoneVal
        /\ res.t = "color" =>
        /\ res.name = arg.color.name
        /\ res.rgb = arg.color.rgb
        /\ res.filter = (IF arg.filter # NoneVal THEN arg.filter
                         ELSE arg.color.filter)
        /\ res.transmit = (IF arg.transmit # NoneVal THEN arg.transmit
                           ELSE arg.color.transmit)

\* the call whose result was serialized is Color(name, ...) for a name of
\* the table
OfTableName ==
    /\ arg.fn = "str"
    /\ res.t = "str"
    /\ arg.of.color.t = "str"
    /\ ~arg.of.color.hex
    /\ ToUpper(arg.of.color.name) \in DOMAIN ColorName

\* the text of the Color built with the same arguments from the lower-case
\* spelling of the name
LowerCaseText(a) ==
    ColorStr(ColorInit(NameArg(NameOf(a.color.name.letters, "lower")),
                       a.alpha, a.filter, a.transmit))

\* C22 as stated: every spelling of a name of the table resolves to the
\* table entry and renders as the lower-case spelling does.
C22_CaseInsensitive ==
    OfTableName =>
        /\ res.color.rgb = ColorName[ToUpper(arg.of.color.name)]
        /\ res.text = LowerCaseText(arg.of)

\* C22: the lower-case spelling of a name of the table resolves to the table
\* entry and renders by its channels; every other spelling is kept as the
\* name of the colour, with channels 0, and renders as that name.
C22_LowerCaseResolves ==
    OfTableName =>
        IF IsLower(arg.of.color.name)
        THEN /\ res.color.name = ""
             /\ res.color.rgb = ColorName[ToUpper(arg.of.color.name)]
             /\ res.text = LowerCaseText(arg.of)
        ELSE /\ res.color.name = Spelled(arg.of.color.name)
             /\ res.color.rgb = <<0, 0, 0>>
             /\ res.text = Join(NamedIter(res.color), " ")

\* Color("Red", filter=0.3) serialized
C22_Witness ==
    /\ OfTableName
    /\ arg.of.color.name = NameOf("red", "capitalised")
    /\ res.text = "Red filter 0.3"

\* the specification of the call is not valid: a tuple of neither 3 nor 4
\* components, a malformed hex string, or, for the class that validates, a
\* channel or an alpha outside [0, 1] (an alpha argument counts when the
\* colour carries no alpha of its own)
InvalidSpec(a) ==
    \/ a.color.t = "tuple" /\ Len(a.color.items) \notin {3, 4}
    \/ a.color.t = "str" /\ a.color.hex /\ a.color.form # "ok"
    \/ /\ a.fn = "StrictColor"
       /\ \/ /\ a.alpha # NoneVal
             /\ ~InRange(a.alpha.n)
             /\ ColorAlpha(a.color, NoneVal) = NoneVal
          \/ a.color.t = "tuple"
               /\ \E i \in DOMAIN a.color.items : ~InRange(a.color.items[i])

\* C23: constructing a Color from an invalid specification raises, so that
\* every Color that exists has its three channels, in [0, 1] for the class
\* that validates.
C23_InvalidRaises ==
    arg.fn \in {"Color", "StrictColor"} /\ arg.color.t # "color" =>
        /\ InvalidSpec(arg) => res.t = "raised"
        /\ res.t # "raised" =>
              /\ Len(res.rgb) = 3
              /\ arg.fn = "StrictColor" =>
                    \A i \in DOMAIN res.rgb : InRange(res.rgb[i])

\* a SphereSweep was serialized
SweepSerialized ==
    arg.fn = "str" /\ res.t = "str" /\ res.fn = "Element"
        /\ res.node.kind = "sphere_sweep"

\* str(Kind(*args, *attrs)) computed on its own
TextOfNode(node) == Str(Append(StrHeap, node), Ref(Len(StrHeap) + 1))

\* C24: SphereSweep serialization applies its fallbacks in this order: no
\* centre gives the empty text, one centre the text of Sphere(centre, radius,
\* attrs) with the first radius of a per-point radius, a b_spline or
\* cubic_spline of fewer than 4 centres the text of the linear_spline sweep
\* of the same centres, radius and attributes; otherwise the header is
\* `<kind>, N` for the N centres.
C24_SweepFallbacks ==
    SweepSerialized =>
        LET kind == res.node.args[1].s
            centers == res.node.args[2].items
            radius == res.node.args[3]
        IN IF Len(centers) = 0 THEN res.text = ""
           ELSE IF Len(centers) = 1
           THEN res.text =
                  TextOfNode([kind |-> "sphere",
                              args |-> <<centers[1],
                                         IF radius.t = "list" THEN radius.items[1]
                                         ELSE radius>>,
                              attrs |-> res.node.attrs])
           ELSE IF kind \in {"b_spline", "cubic_spline"} /\ Len(centers) < 4
           THEN res.text =
                  TextOfNode([res.node EXCEPT !.args[1] = Tok("linear_spline")])
                /\ res.frags[1] = "linear_spline, " \o ToStr(Len(centers))
           ELSE res.frags[1] = kind \o ", " \o ToStr(Len(centers))

\* a cubic spline of two centres, serialized as a linear spline
C24_Witness ==
    /\ SweepSerialized
    /\ res.node.args[1].s = "cubic_spline"
    /\ Len(res.node.args[2].items) = 2
    /\ res.node.attrs = <<>>
    /\ res.text = "sphere_sweep { linear_spline, 2 1, 1, 2, 1 }"

\* the radii that occur in the sweeps of the model
RadiusValues == {Num(1), Num(5), Num(6)}

\* the text of the pairs (centers[i], rs[i]), joined
PairsText(centers, rs) ==
    Join([i \in DOMAIN centers |->
             Str(StrHeap, centers[i]) \o ", " \o Str(StrHeap, rs[i])], ", ")

\* C29: in a serialized SphereSweep the count N of the header `<kind>, N`
\* is the number of (centre, radius) pairs emitted after it: the header
\* counts the centres, and the fragment after it is the text of one pair per
\* centre.
C29_HeaderCountsPairs ==
    SweepSerialized /\ Len(res.node.args[2].items) >= 2 =>
        /\ res.frags[1] = SweepKind(res.node).args[1].s \o ", "
                            \o ToStr(Len(res.node.args[2].items))
        /\ \E rs \in [DOMAIN res.node.args[2].items -> RadiusValues] :
              res.frags[2] = PairsText(res.node.args[2].items, rs)

\* a Curve was serialized
CurveSerialized ==
    arg.fn = "str" /\ res.t = "str" /\ res.fn = "Element" /\ res.node.kind = "curve"

\* the centres of a curve with the reflected points 2*p0 - p1 in front and
\* 2*p(n-1) - p(n-2) behind
WithGhosts(ps) ==
    <<Num(2 * ps[1].n - ps[2].n)>> \o ps
      \o <<Num(2 * ps[Len(ps)].n - ps[Len(ps) - 1].n)>>

\* a per-point radius with a copy of its first entry in front and of its last
\* entry behind
Extended(r) ==
    IF r.t = "list"
    THEN ListVal(<<r.items[1]>> \o r.items \o <<r.items[Len(r.items)]>>)
    ELSE r

\* C25: a Curve of n >= 2 points serializes as the cubic_spline sweep of the
\* n+2 control points [2*p0 - p1, p0, ..., p(n-1), 2*p(n-1) - p(n-2)], never
\* as a linear_spline, a per-point radius being extended by a copy of its
\* first and of its last entry; a Curve of fewer than 2 points serializes as
\* the Polyline of the same arguments.
C25_CurveGhostPoints ==
    CurveSerialized =>
        LET ps == res.node.args[1].items
        IN IF Len(ps) >= 2
           THEN /\ res.frags[1] = "cubic_spline, " \o ToStr(Len(ps) + 2)
                /\ res.text =
                     TextOfNode([kind |-> "sphere_sweep",
                                 args |-> <<Tok("cubic_spline"),
                                            ListVal(WithGhosts(ps)),
                                            Extended(res.node.args[2])>>,
                                 attrs |-> res.node.attrs])
           ELSE res.text = TextOfNode([res.node EXCEPT !.kind = "polyline"])

\* Curve([1, 2], [5, 6]) serialized
C25_Witness ==
    /\ CurveSerialized
    /\ res.node.args[1].items = <<Num(1), Num(2)>>
    /\ res.node.args[2] = ListVal(<<Num(5), Num(6)>>)
    /\ res.node.attrs = <<>>
    /\ res.text = "sphere_sweep { cubic_spline, 4 0, 5, 1, 5, 2, 6, 3, 6 }"

MapSerialized == arg.fn = "str" /\ res.t = "str" /\ res.fn = "Map"

\* the text a value of a pair contributes to its entry
ValueText(v) ==
    IF v.t = "inline" THEN Join(StrAll(StrHeap, v.node.attrs), " ") ELSE v.s

\* C26: a map serializes one bracketed entry per (key, value) pair given, in
\* the order given; pairs with the same key give an entry each.
C26_MapEntries ==
    MapSerialized =>
        /\ Len(res.frags) = Len(res.pairs)
        /\ \A i \in DOMAIN res.pairs :
              res.frags[i] = "[" \o ToStr(res.pairs[i].key) \o " "
                               \o ValueText(res.pairs[i].value) \o "]"
        /\ res.text = "pigment_map { " \o Join(res.frags, " ") \o " }"

\* PigmentMap((1, Pigment("Red")), (0, "Blue"), (1, "Blue")) serialized
C26_Witness ==
    /\ MapSerialized
    /\ res.text = "pigment_map { [1 Red] [0 Blue] [1 Blue] }"

(***************************************************************************)
(* Regions and fields: fdray/region.py and fdray/data/visualization.py.   *)
(* A region is given by its shape (the extent of every dimension), every  *)
(* cell holds an object, and the result is the sequence of the positions  *)
(* the cells are translated to.                                            *)
(***************************************************************************)
MaxNdim == 3        \* dimensions of a region
MaxExtent == 2      \* cells along a dimension

\* the indices of a block of `n` copies of the indices `rest`, row-major
IndicesFrom(n, rest) ==
    [k \in 1..(n * Len(rest)) |->
        <<(k - 1) \div Len(rest)>> \o rest[((k - 1) % Len(rest)) + 1]]

RECURSIVE NdIndex(_)
\* np.ndindex(shape)
NdIndex(shape) ==
    IF shape = <<>> THEN << <<>> >>
    ELSE IndicesFrom(Head(shape), NdIndex(Tail(shape)))

\* (*position, 0, 0)[:3]
PadPosition(position) ==
    [j \in 1..3 |-> IF j <= Len(position) THEN position[j] ELSE 0]

\* Region.__init__: the spacing after the check, or the error raised
RegionSpacing(shape, spacing) ==
    IF spacing.t = "num"
    THEN [t |-> "tuple", items |-> [j \in 1..Len(shape) |-> spacing.n]]
    ELSE IF Len(spacing.items) # Len(shape) THEN RaisedError("ValueError")
    ELSE spacing

\* the position of the cell at idx in Region.__init__: zip(idx, spacing)
RegionPosition(idx, spacing) ==
    PadPosition([j \in 1..Len(idx) |-> idx[j] * spacing[j]])

\* Region(region, shape, spacing)
RegionInit(shape, spacing, checked) ==
    IF checked.t = "raised" THEN checked
    ELSE [t |-> "union",
          cells |-> [k \in DOMAIN NdIndex(shape) |->
                        RegionPosition(NdIndex(shape)[k], checked.items)]]

\* translate of data/visualization.py: zip(index, cycle(spacing))
TranslatePosition(idx, spacing) ==
    PadPosition([j \in 1..Len(idx) |->
                    idx[j] * spacing[((j - 1) % Len(spacing)) + 1]])

\* list(spacing) if isinstance(spacing, Iterable) else [spacing]
SpacingList(spacing) ==
    IF spacing.t = "num" THEN <<spacing.n>> ELSE spacing.items

\* iter_objects_from_callable: the first field.ndim - ndim dimensions
\* position the objects
FieldCells(shape, spacing, ndim) ==
    [k \in DOMAIN NdIndex(SubSeq(shape, 1, Len(shape) - ndim)) |->
        TranslatePosition(NdIndex(SubSeq(shape, 1, Len(shape) - ndim))[k],
                          SpacingList(spacing))]

\* from_field(field, obj, spacing, ndim, as_union=as_union)
FromFieldOf(shape, spacing, ndim, as_union) ==
    [t |-> IF as_union THEN "union" ELSE "list",
     cells |-> FieldCells(shape, spacing, ndim)]

RegionShapes == UNION {[1..n -> 1..MaxExtent] : n \in 1..MaxNdim}
Spacings ==
    {Num(1), Num(2)} \cup
    {[t |-> "tuple", items |-> c] :
        c \in UNION {[1..n -> 1..2] : n \in 1..MaxNdim}}

\* Region(region, spacing=spacing) of region.py
NewRegion ==
    /\ arg = NoArg
    /\ \E shape \in RegionShapes, spacing \in Spacings :
          /\ arg' = [fn |-> "Region", shape |-> shape, ndim |-> Len(shape),
                     spacing |-> spacing]
          /\ res' = RegionInit(shape, spacing, RegionSpacing(shape, spacing))
    /\ UNCHANGED <<csgVars, setVars, sceneVars, idVars>>

\* from_region(region, None, spacing, as_union=as_union): every value of the
\* region is a key of the default mapping
FromRegion ==
    /\ arg = NoArg
    /\ \E shape \in RegionShapes, spacing \in Spacings, as_union \in BOOLEAN :
          /\ arg' = [fn |-> "from_region", shape |-> shape,
                     ndim |-> Len(shape), spacing |-> spacing]
          /\ res' = FromFieldOf(shape, spacing, 0, as_union)
    /\ UNCHANGED <<csgVars, setVars, sceneVars, idVars>>

\* from_field(field, obj, spacing, ndim, as_union=as_union) with an obj that
\* returns an Object for every cell
FromField ==
    /\ arg = NoArg
    /\ \E shape \in RegionShapes, spacing \in Spacings, as_union \in BOOLEAN,
          ndim \in 0..1 :
          /\ ndim < Len(shape)
          /\ arg' = [fn |-> "from_field", shape |-> shape,
                     ndim |-> Len(shape) - ndim, spacing |-> spacing]
          /\ res' = FromFieldOf(shape, spacing, ndim, as_union)
    /\ UNCHANGED <<csgVars, setVars, sceneVars, idVars>>

RegionInitial == NoBuilder /\ NoScopes /\ NoScenes /\ NoIds /\ NoCalls

RegionNext ==
    \/ NewRegion
    \/ FromRegion
    \/ FromField

SpecRegion == RegionInitial /\ [][RegionNext]_vars

\* a spacing tuple whose length differs from the positioning dimensions
SpacingMismatch ==
    /\ arg.fn \in {"Region", "from_region", "from_field"}
    /\ arg.spacing.t = "tuple"
    /\ Len(arg.spacing.items) # arg.ndim

\* C27: building the objects of a region or field with a spacing tuple whose
\* number of components differs from the dimensions of the region raises a
\* ValueError; no union or object list is produced.
C27_SpacingMismatchRaises ==
    SpacingMismatch => res.t = "raised" /\ res.error = "ValueError"

(***************************************************************************)
(* Overlapping serializations: two iterations of Scene.__iter__, of the    *)
(* main scene and of the other scene of the process, advanced in turn.     *)
(* A step is what one iteration runs between two of its yields and that    *)
(* touches the registry of the process: the clear, the global settings,    *)
(* one light source, the attrs with the #declare statements.               *)
(***************************************************************************)
NoOutcome == Outcome("", EmptyRegistry, <<>>, FALSE)
NoPass == Pass(<<>>, EmptyRegistry, FALSE, <<>>, <<>>)

\* iter(scene): the generator before its first step
NewIter(sc) ==
    [pc |-> "new", sc |-> sc, gs |-> NoOutcome, lights |-> NoPass,
     out |-> NoPass, cut |-> FALSE]

\* the text of an iteration that ended with an exception
IterRaised(it, reg) ==
    [it EXCEPT !.pc = "done", !.out = Pass(<<>>, reg, TRUE, <<>>, <<>>)]

\* Declare.clear(); yield "#version ..."; the includes
IterStart(it) == [it EXCEPT !.pc = "settings"]

\* yield str(self.global_settings), gs being its outcome
IterSettings(it, gs) ==
    IF gs.raised THEN IterRaised(it, gs.reg)
    ELSE [it EXCEPT !.pc = "lights", !.gs = gs,
                    !.lights = Pass(<<>>, gs.reg, FALSE, <<>>, <<>>)]

\* the light sources that have not been turned into strings
LightsLeft(it) ==
    SubSeq(it.sc.light_sources, Len(it.lights.lights) + 1,
           Len(it.sc.light_sources))

\* yield light.to_str(self.camera) for the next light source, l being the
\* outcome of LightLines for it
IterLight(it, l) ==
    IF l.raised THEN IterRaised(it, l.reg)
    ELSE [it EXCEPT !.lights = Pass(@.lines \o l.lines, l.reg, FALSE,
                                    @.lights \o l.lights, <<>>)]

\* a slip of the last step: the #declare statements are taken from the
\* registry before the attrs are turned into strings
IterAttrsDeclareFirst(h, it, cam, reg) ==
    [it EXCEPT !.pc = "done",
               !.out = SceneFromLightsDeclareFirst(
                           h, it.sc, cam, it.gs,
                           [it.lights EXCEPT !.reg = reg])]

\* attrs = [str(attr) for attr in self.attrs]; yield from
\* Declare.iter_strs(); yield from attrs
IterAttrs(h, it, cam, reg) ==
    [it EXCEPT !.pc = "done",
               !.out = SceneFromLights(h, it.sc, cam, it.gs,
                                       [it.lights EXCEPT !.reg = reg])]

\* the iteration has registered wrappers that its #declare statements are
\* still to come for
Running(it) == it.pc \in {"settings", "lights"}

\* main = Scene(*args); the program takes iter(main) and iter(other)
Iterate ==
    /\ arg = NoArg
    /\ \E args \in ArgLists :
          arg' = [fn |-> "iter", args |-> args,
                  its |-> [s \in SceneIds |->
                              NewIter(IF s = "main" THEN NewSceneOf(args)
                                      ELSE OtherScene)]]
    /\ UNCHANGED <<csgVars, setVars, sceneVars, idVars, res>>

\* the iterations after a step of s that leaves s as it
Stepped(s, it) == arg' = [arg EXCEPT !.its[s] = it]

\* the first next() of an iteration: the registry is cleared under every
\* other iteration
StartIter ==
    /\ arg.fn = "iter"
    /\ \E s \in SceneIds :
          /\ arg.its[s].pc = "new"
          /\ registry' = DeclareClear(registry)
          /\ arg' = [arg EXCEPT
                       !.its = [o \in SceneIds |->
                                  IF o = s THEN IterStart(arg.its[s])
                                  ELSE [arg.its[o] EXCEPT
                                          !.cut = @ \/ Running(arg.its[o])]]]
    /\ UNCHANGED <<csgVars, setVars, idVars, scene, camera, last, call, res>>

SettingsIter ==
    /\ arg.fn = "iter"
    /\ \E s \in SceneIds :
          /\ arg.its[s].pc = "settings"
          /\ Stepped(s, IterSettings(arg.its[s],
                                     DescStr(heap, registry, "global_settings",
                                             arg.its[s].sc.global_settings)))
          /\ registry' = arg'.its[s].lights.reg
    /\ UNCHANGED <<csgVars, setVars, idVars, scene, camera, last, call, res>>

LightIter ==
    /\ arg.fn = "iter"
    /\ \E s \in SceneIds :
          /\ arg.its[s].pc = "lights"
          /\ LightsLeft(arg.its[s]) # <<>>
          /\ Stepped(s, IterLight(arg.its[s],
                                  LightLines(heap, registry,
                                             <<Head(LightsLeft(arg.its[s]))>>)))
          /\ registry' = IF arg'.its[s].pc = "done" THEN arg'.its[s].out.reg
                         ELSE arg'.its[s].lights.reg
    /\ UNCHANGED <<csgVars, setVars, idVars, scene, camera, last, call, res>>

AttrsIter ==
    /\ arg.fn = "iter"
    /\ \E s \in SceneIds :
          /\ arg.its[s].pc = "lights"
          /\ LightsLeft(arg.its[s]) = <<>>
          /\ Stepped(s, IterAttrs(heap, arg.its[s], camera, registry))
          /\ registry' = arg'.its[s].out.reg
    /\ UNCHANGED <<csgVars, setVars, idVars, scene, camera, last, call, res>>

OverlapInit ==
    /\ heap = SceneHeap
    /\ made = <<>>
    /\ NoScopes
    /\ NoScenes
    /\ NoIds
    /\ NoCalls

OverlapNext ==
    \/ Iterate
    \/ StartIter
    \/ SettingsIter
    \/ LightIter
    \/ AttrsIter

SpecOverlap == OverlapInit /\ [][OverlapNext]_vars

\* the iteration of s has yielded its whole text
Finished(s) ==
    /\ arg.fn = "iter"
    /\ arg.its[s].pc = "done"
    /\ ~arg.its[s].out.raised

\* the identifiers the lines reference
Referenced(lines) ==
    {lines[i].refs[j].text : <<i, j>> \in
        {u \in (DOMAIN lines) \X (1..4) : u[2] \in DOMAIN lines[u[1]].refs}}

\* the identifiers the #declare statements of the lines, taken from the
\* registry reg, define
Declared(lines, reg) ==
    {reg.members[k].id : k \in
        {m \in DOMAIN reg.members :
            \E i \in DOMAIN lines :
                /\ lines[i].kind = "declare"
                /\ lines[i].text = DeclareStatement(reg.members[m])}}

\* the identifiers a finished text references and does not declare
Undeclared(s) ==
    Referenced(arg.its[s].out.lines)
        \ Declared(arg.its[s].out.lines, arg.its[s].out.reg)

\* C28: the registry is not safe under overlap. A finished text references an
\* identifier it has no #declare statement for only when the first step of
\* another iteration cleared the registry between the first step of its own
\* iteration and its #declare statements; iterations that do not overlap
\* declare everything they reference.
C28_OnlyOverlapLosesDeclarations ==
    \A s \in SceneIds :
        Finished(s) /\ Undeclared(s) # {} => arg.its[s].cut

\* the text of main references an identifier, registered for a light source,
\* that it has no #declare statement for
C28_Witness ==
    /\ Finished("main")
    /\ arg.its["main"].cut
    /\ Undeclared("main") # {}

(***************************************************************************)
(* Entering a scope that fails: a `with camera.set(...)` in which a name    *)
(* is a read-only property of Camera or no attribute at all.               *)
(***************************************************************************)
MaxKw == 3          \* keyword arguments of a set(...) call

\* the derived properties of Camera: readable, without a setter
Properties == {"location"}

\* the first keyword, if any, that satisfies Bad: its position, else 0
FirstOf(kwargs, Bad) ==
    IF \E i \in DOMAIN kwargs : kwargs[i][1] \in Bad
    THEN CHOOSE i \in DOMAIN kwargs :
            /\ kwargs[i][1] \in Bad
            /\ \A j \in 1..(i - 1) : kwargs[j][1] \notin Bad
    ELSE 0

\* the setattr loop of Descriptor.set left by the AttributeError of the
\* k-th keyword: the keywords before it are written
SetUpTo(r, kwargs, k) ==
    [rec |-> SetAll(r, MapSeq(KwName, SubSeq(kwargs, 1, k - 1)),
                    MapSeq(KwValue, SubSeq(kwargs, 1, k - 1))),
     raised |-> TRUE, values |-> <<>>]

\* Descriptor.set up to its yield on a Camera: getattr of every name (an
\* unknown name raises, nothing is written), then setattr of every name in
\* turn (a property raises, the names before it stay written)
SetCall(r, kwargs) ==
    IF \E i \in DOMAIN kwargs : kwargs[i][1] \notin FieldNames(r) \cup Properties
    THEN [rec |-> r, raised |-> TRUE, values |-> <<>>]
    ELSE IF FirstOf(kwargs, Properties) # 0
    THEN SetUpTo(r, kwargs, FirstOf(kwargs, Properties))
    ELSE [rec |-> SetEnter(r, kwargs).rec, raised |-> FALSE,
          values |-> SetEnter(r, kwargs).values]

TryNames == FieldNames(NewCamera) \cup Properties \cup {"nofield"}
TryKwargs ==
    {kw \in UNION {[1..n -> TryNames \X {Num(2), Num(3)}] : n \in 1..MaxKw} :
        \A i, j \in DOMAIN kw : i # j => kw[i][1] # kw[j][1]}

\* cam = Camera(); with cam.set(**kwargs): the block is entered, or the
\* call raises
TrySet ==
    /\ arg = NoArg
    /\ \E kw \in TryKwargs :
          /\ arg' = [fn |-> "set", rec |-> NewCamera, kwargs |-> kw]
          /\ res' = SetCall(NewCamera, kw)
    /\ UNCHANGED <<csgVars, setVars, sceneVars, idVars>>

\* the block is left
LeaveTry ==
    /\ arg.fn = "set"
    /\ ~res.raised
    /\ arg' = [fn |-> "left", rec |-> arg.rec, kwargs |-> arg.kwargs]
    /\ res' = [rec |-> SetExit(res.rec, arg.kwargs, res.values, FALSE),
               raised |-> FALSE, values |-> <<>>]
    /\ UNCHANGED <<csgVars, setVars, sceneVars, idVars>>

TryInit == NoBuilder /\ NoScopes /\ NoScenes /\ NoIds /\ NoCalls

TryNext ==
    \/ TrySet
    \/ LeaveTry

SpecTry == TryInit /\ [][TryNext]_vars

\* C30: entering a set(...) scope is all-or-nothing: when applying the
\* overrides fails part-way, the record is left exactly as before the call.
C30_SetAllOrNothing ==
    arg.fn = "set" /\ res.raised => res.rec = arg.rec

====
